---- MODULE Spec2Model ----
(***************************************************************************)
(* Model of the automation engine of the OSPF device manager:              *)
(*   - JobManager        (backend/modules/command_executor.py)             *)
(*   - CommandExecutor   (execute_job_async, _process_batch)               *)
(*   - SSHConnectionManager pool (backend/modules/connection_manager.py)   *)
(*                                                                         *)
(* Spec    : one job run by the executor thread and the per-batch worker   *)
(*           threads, with stop_job arriving from the HTTP API at any time.*)
(* FairSpec: Spec with weak fairness on the threads of the executor.       *)
(* SpecJM  : the Job Manager alone, driven by a sequential caller, with    *)
(*           stop_job and fail_job arriving at any time.                   *)
(***************************************************************************)
EXTENDS Integers, Sequences, FiniteSets, TLC

\* ------------------------------------------------------------------------
\* Bounds of the model
\* ------------------------------------------------------------------------
NumDevices == 2
NumCommands == 2
MaxBatchSize == 2
MaxPreConnected == 1
MaxTotal == 50
MaxFailCalls == 1
NumConnThreads == 2
MaxSaves == 1
MaxTunnels == 2
MaxInitCalls == 2
MaxCommandUpdates == 4
NumSubscribers == 2
MaxSnapshots == 3
MaxListLen == 2
MaxClock == 2
MaxRateDevices == 15
MaxRateBatchSize == 7
SlowRate == 400
MaxRows == 3
MaxCost == 2
MaxNameLen == 3
MaxSplitDevices == 9
MaxSplitSize == 9
NumClients == 3
NumJobs == 2
NumRouters == 3
MaxNeighborRows == 1

\* ------------------------------------------------------------------------
\* Program constants
\* ------------------------------------------------------------------------
SYSTEM == 0
SecondsPerHour == 3600
SleepChunk == 1

Devices == 1..NumDevices
CommandIdx == 0..(NumCommands - 1)
BatchSizeChoices == 1..MaxBatchSize
DevicesPerHourChoices == {0, SecondsPerHour}
PreConnectable == {d \in Devices : d <= MaxPreConnected}
CountryOf(d) == IF d % 2 = 1 THEN "DEU" ELSE "ZAF"

Max(a, b) == IF a >= b THEN a ELSE b

\* ------------------------------------------------------------------------
\* Python float arithmetic (IEEE-754 binary64, round to nearest even).
\* A positive float is [m2, m1, m0, e] with value
\*   (m2 * 2^36 + m1 * 2^18 + m0) * 2^(e - 52).
\* Valid for operands below 2^13 and results below 2^24.
\* ------------------------------------------------------------------------
RECURSIVE Pow2(_)
Pow2(n) == IF n <= 0 THEN 1 ELSE 2 * Pow2(n - 1)

Limb == Pow2(18)

RECURSIVE BitLen(_)
BitLen(n) == IF n = 0 THEN 0 ELSE 1 + BitLen(n \div 2)

RECURSIVE ShiftToAtLeast(_, _)
ShiftToAtLeast(a, b) ==
    IF a >= b THEN <<a, 0>>
    ELSE <<ShiftToAtLeast(2 * a, b)[1], ShiftToAtLeast(2 * a, b)[2] + 1>>

RECURSIVE ShiftToAtMost(_, _)
ShiftToAtMost(b, a) ==
    IF 2 * b > a THEN <<b, 0>>
    ELSE <<ShiftToAtMost(2 * b, a)[1], ShiftToAtMost(2 * b, a)[2] + 1>>

\* c / t for integers c, t >= 1
FloatDiv(c, t) ==
    LET a   == IF c >= t THEN c ELSE ShiftToAtLeast(c, t)[1]
        b   == IF c >= t THEN ShiftToAtMost(t, c)[1] ELSE t
        e   == IF c >= t THEN ShiftToAtMost(t, c)[2] ELSE 0 - ShiftToAtLeast(c, t)[2]
        r0  == a - b
        f1  == (r0 * Pow2(16)) \div b
        r1  == (r0 * Pow2(16)) % b
        f2  == (r1 * Limb) \div b
        r2  == (r1 * Limb) % b
        f3  == (r2 * Limb) \div b
        r3  == (r2 * Limb) % b
        guard  == 2 * r3 >= b
        sticky == (2 * r3) % b # 0
        up  == IF guard /\ (sticky \/ f3 % 2 = 1) THEN 1 ELSE 0
        s0  == f3 + up
        s1  == f2 + (s0 \div Limb)
        s2  == Pow2(16) + f1 + (s1 \div Limb)
    IN  [m2 |-> s2, m1 |-> s1 % Limb, m0 |-> s0 % Limb, e |-> e]

\* f * n for a float f and an integer 1 <= n < 2^12
FloatTimes(f, n) ==
    LET p0  == f.m0 * n
        p1  == f.m1 * n + (p0 \div Limb)
        p2  == f.m2 * n + (p1 \div Limb)
        l0  == p0 % Limb
        l1  == p1 % Limb
        k   == BitLen(p2) - 17
        guard  == k >= 1 /\ (l0 \div Pow2(k - 1)) % 2 = 1
        sticky == k >= 1 /\ l0 % Pow2(k - 1) # 0
        lsb    == (l0 \div Pow2(k)) % 2 = 1
        up  == IF guard /\ (sticky \/ lsb) THEN 1 ELSE 0
        q0  == l0 - (l0 % Pow2(k)) + up * Pow2(k)
        q1  == l1 + (q0 \div Limb)
        q2  == p2 + (q1 \div Limb)
    IN  [m2 |-> q2, m1 |-> q1 % Limb, m0 |-> q0 % Limb, e |-> f.e]

\* int(f)
FloatToInt(f) == f.m2 \div Pow2(16 - f.e)

\* total_slept < f  for an integer total_slept
IntLessThanFloat(n, f) ==
    \/ n < FloatToInt(f)
    \/ /\ n = FloatToInt(f)
       /\ (f.m2 % Pow2(16 - f.e) # 0 \/ f.m1 # 0 \/ f.m0 # 0)

\* int((c / t) * 100) (lines 175, 279, 320, 322)
PyPercent(c, t) == IF c = 0 THEN 0 ELSE FloatToInt(FloatTimes(FloatDiv(c, t), 100))

PercentDomain == Max(MaxTotal, NumDevices * NumCommands) + 1
PercentTable == [c \in 0..PercentDomain |-> [t \in 1..PercentDomain |-> PyPercent(c, t)]]
Percent(c, t) == PercentTable[c][t]

\* ------------------------------------------------------------------------
\* Job Manager: the job dictionary and its mutators, as functions on the job
\* ------------------------------------------------------------------------
EventKinds == {"job_created", "device_status_update", "command_update",
               "progress_update", "execution_update", "job_stopping",
               "job_completed", "job_failed"}

NoCurrent == [is_none |-> TRUE, device_id |-> 0, status |-> "", command_index |-> 0]

ActiveStatuses == {"connecting", "connected", "executing"}
ClearingStatuses == {"completed", "failed", "disconnected"}
RunningLikeStatuses == {"connecting", "connected", "executing", "disconnecting"}

NewCountryStats(devs, c) ==
    [total_devices      |-> Cardinality({d \in devs : CountryOf(d) = c}),
     completed_devices  |-> 0,
     running_devices    |-> 0,
     failed_devices     |-> 0,
     pending_devices    |-> Cardinality({d \in devs : CountryOf(d) = c}),
     total_commands     |-> 0,
     completed_commands |-> 0,
     start_time         |-> FALSE,
     end_time           |-> FALSE,
     device_percent     |-> 0,
     command_percent    |-> 0]

\* create_job(device_list) for the devices 1..n
CreateJob(n) ==
    [status            |-> "running",
     total_devices     |-> n,
     completed_devices |-> 0,
     progress_percent  |-> 0,
     results           |-> [x \in {SYSTEM} \cup (1..n) |-> "none"],
     stop_requested    |-> FALSE,
     end_time          |-> FALSE,
     error             |-> FALSE,
     current_device    |-> NoCurrent,
     device_progress   |-> [d \in 1..n |->
                              [country            |-> CountryOf(d),
                               status             |-> "pending",
                               completed_commands |-> 0,
                               total_commands     |-> 0,
                               percent            |-> 0,
                               commands           |-> <<>>,
                               errors             |-> <<>>]],
     country_stats     |-> [c \in {CountryOf(d) : d \in 1..n} |-> NewCountryStats(1..n, c)]]

\* _update_country_stats(job)
UpdateCountryStats(j) ==
    LET dp == j.device_progress
        In(c, S) == Cardinality({d \in DOMAIN dp : dp[d].country = c /\ dp[d].status \in S})
        Other(c) == Cardinality({d \in DOMAIN dp : dp[d].country = c /\
                        dp[d].status \notin ({"completed", "running", "failed"} \cup RunningLikeStatuses)})
        Stat(c, s) ==
            LET completed == In(c, {"completed"})
                running   == In(c, {"running"} \cup RunningLikeStatuses)
                failed    == In(c, {"failed"})
                started   == s.start_time \/ running > 0
            IN  [s EXCEPT !.completed_devices = completed,
                          !.running_devices   = running,
                          !.failed_devices    = failed,
                          !.pending_devices   = Other(c),
                          !.device_percent    = IF s.total_devices > 0
                                                THEN Percent(completed, s.total_devices) ELSE @,
                          !.command_percent   = IF s.total_commands > 0
                                                THEN Percent(s.completed_commands, s.total_commands) ELSE @,
                          !.start_time        = started,
                          !.end_time          = @ \/ (completed + failed = s.total_devices /\ started)]
    IN  [j EXCEPT !.country_stats = [c \in DOMAIN @ |-> Stat(c, @[c])]]

\* the test of line 182
IsJobComplete_OffByOne(cd, td) == cd >= td - 1
IsJobComplete(cd, td) == cd = td

\* update_job_progress(job_id, device_id, result), result["status"] = rs
UpdateJobProgress(j, id, rs) ==
    LET cd == j.completed_devices + 1
        j1 == [j EXCEPT !.completed_devices = cd,
                        !.progress_percent  = Percent(cd, j.total_devices),
                        !.results[id]       = rs]
        j2 == IF id \in DOMAIN j.device_progress
              THEN [j1 EXCEPT !.device_progress[id].status = rs] ELSE j1
        j3 == IF IsJobComplete(cd, j.total_devices)
              THEN [j2 EXCEPT !.status = "completed", !.end_time = TRUE,
                              !.current_device = NoCurrent]
              ELSE j2
    IN  UpdateCountryStats(j3)

ProgressEvent(j) == IF j.status = "completed" THEN "job_completed" ELSE "progress_update"

\* update_current_execution(job_id, current_device)
UpdateCurrentExecution(j, d, i) ==
    [j EXCEPT !.current_device =
        [is_none |-> FALSE, device_id |-> d, status |-> "", command_index |-> i + 1]]

\* init_device_commands(job_id, device_id, commands)
InitDeviceCommands(j, d) ==
    IF d \notin DOMAIN j.device_progress THEN j
    ELSE [j EXCEPT !.device_progress[d].total_commands = NumCommands,
                   !.device_progress[d].commands = [i \in 1..NumCommands |-> "pending"],
                   !.country_stats[j.device_progress[d].country].total_commands = @ + NumCommands]

\* update_device_command_status(job_id, device_id, command_index, status)
UpdateDeviceCommandStatus(j, d, i, st) ==
    LET dp0 == j.device_progress[d]
        cc  == IF st \in {"success", "failed"} THEN dp0.completed_commands + 1
               ELSE dp0.completed_commands
        dp1 == [dp0 EXCEPT
                  !.commands = IF i < Len(@) THEN [@ EXCEPT ![i + 1] = st] ELSE @,
                  !.completed_commands = cc,
                  !.status  = IF st = "running" THEN "running" ELSE @,
                  !.percent = IF dp0.total_commands > 0
                              THEN Percent(cc, dp0.total_commands) ELSE @]
        j1  == [j EXCEPT !.device_progress[d] = dp1,
                         !.country_stats[dp0.country].completed_commands =
                              IF st \in {"success", "failed"} THEN @ + 1 ELSE @]
    IN  UpdateCountryStats(j1)

\* fail_job(job_id, error)
FailJob(j) ==
    [j EXCEPT !.status = "failed", !.error = TRUE, !.end_time = TRUE,
              !.current_device = NoCurrent]

\* the guard of stop_job (line 352)
StopJobApplies(j) == j.status = "running"

\* stop_job(job_id)
StopJob(j) ==
    IF StopJobApplies(j)
    THEN [j EXCEPT !.stop_requested = TRUE, !.status = "stopping"]
    ELSE j

\* is_stop_requested(job_id)
IsStopRequested(j) == j.stop_requested

\* update_device_status raises AttributeError on a None current_device
\* (line 388), after the status was stored and before the broadcast
UpdateDeviceStatusRaises(j, st) == st \in ClearingStatuses /\ j.current_device.is_none

\* update_device_status(job_id, device_id, status, error)
UpdateDeviceStatus(j, d, st, err) ==
    LET j1 == [j EXCEPT !.device_progress[d].status = st,
                        !.device_progress[d].errors =
                            IF err # "" THEN Append(@, err) ELSE @]
    IN  IF st \in ActiveStatuses
        THEN [j1 EXCEPT !.current_device =
                 [is_none |-> FALSE, device_id |-> d, status |-> st, command_index |-> 0]]
        ELSE IF st \in ClearingStatuses /\ ~j.current_device.is_none
                /\ j.current_device.device_id = d
        THEN [j1 EXCEPT !.current_device = NoCurrent]
        ELSE j1

\* ------------------------------------------------------------------------
\* Connection pool (SSHConnectionManager.active_connections)
\* ------------------------------------------------------------------------
ConnectOutcomes == {"ok", "fail_before_store", "fail_after_store"}

\* connect(device_id, ...): the session is stored (line 374) before
\* find_prompt (line 377) can still raise
PoolAfterConnect(pool, d, outcome) ==
    IF outcome = "fail_before_store" THEN pool ELSE pool \cup {d}

\* disconnect(device_id): removed on the normal path (line 436) and on the
\* error path (line 457)
PoolAfterDisconnect_KeepOnError(pool, d, raised) == IF raised THEN pool ELSE pool \ {d}
PoolAfterDisconnect(pool, d, raised) == pool \ {d}

\* is_connected(device_id)
IsConnected(pool, d) == d \in pool

\* jumphost_config.json as load_jumphost_config returns it; version counts
\* the saves, so that settings written by different saves differ
BastionConfig(enabled, password_set, version) ==
    [enabled |-> enabled, password_set |-> password_set, version |-> version]

\* a JumphostTunnel object: __init__ (lines 95-99) keeps the config it was
\* given; transport is "none" (None), "active" or "inactive" (is_active() false)
NoTunnel == [made |-> FALSE, version |-> 0, transport |-> "none"]
NewTunnel(settings) == [made |-> TRUE, version |-> settings, transport |-> "none"]

\* device_info.get('username', '').strip() or 'cisco' (line 329): odd devices
\* carry a username of their own in the device table, even ones none
DeviceHasUsername(d) == d % 2 = 1
DeviceUsername(d) == IF DeviceHasUsername(d) THEN "device" ELSE "default"

\* jumphost_config.get('password', '').strip(), else .env.local (lines 333-339)
DevicePassword(password_set) == IF password_set THEN "jumphost" ELSE "env"

NoConnection == [kind |-> "none", required |-> FALSE, username |-> "", password |-> ""]

\* device_params handed to ConnectHandler (lines 344-366)
DeviceParams(d, password_set, required, via) ==
    [kind     |-> IF via THEN "tunnel" ELSE "direct",
     required |-> required,
     username |-> DeviceUsername(d),
     password |-> DevicePassword(password_set)]

\* the SECURITY block of connect (line 302)
DirectBlocked_Never(required, via) == FALSE
DirectBlocked(required, via) == required /\ ~via

\* ------------------------------------------------------------------------
\* State
\* ------------------------------------------------------------------------
VARIABLES
    job,                \* the job dictionary of the Job Manager
    broadcasts,         \* number of snapshots broadcast, per event kind
    active_connections, \* device ids in the connection pool
    metadata,           \* status field of metadata.json ("none": not written)
    current_link,       \* the 'current' pointer: "absent", "previous" (an earlier execution), "this"
    params,             \* batch_size and devices_per_hour of the run
    main,               \* the executor thread (execute_job_async)
    worker,             \* the worker thread of each device (process_device)
    stop_batch,         \* history: batch in progress when stop_job applied
    jumphost_config,    \* content of jumphost_config.json
    bastion_up,         \* environment: the bastion accepts SSH connections
    jumphost_tunnel,    \* SSHConnectionManager.jumphost_tunnel: 0 (None) or a tunnel object
    tunnels,            \* the JumphostTunnel objects created so far
    jumphost_lock,      \* SSHConnectionManager._jumphost_lock: 0 (free) or the holding thread
    device_channels,    \* SSHConnectionManager.device_channels (device ids)
    connections,        \* parameters of the session stored for each device
    conn,               \* the threads running SSHConnectionManager.connect
    saver,              \* the thread running save_jumphost_config
    pool_at_start,      \* history: the pool when the job started
    ws_applied,         \* number of mutations applied under the Job Manager lock
    ws_ready,           \* the event loop's ready queue (broadcast coroutines, by snapshot number)
    ws_task,            \* the broadcast_job_update coroutine of each snapshot
    ws_paused,          \* per subscriber: the socket's transport has paused writing
    ws_drainers,        \* per subscriber: coroutines suspended in send_text, in arrival order
    ws_received,        \* per subscriber: the snapshot numbers written to its socket
    ws_serialized,      \* per snapshot, the state of the job's live dictionaries when json.dumps ran
    art_commands,       \* the command list of the job
    art_clock,          \* wall clock, in whole seconds
    art_pos,            \* position of process_device in its command executions
    art_files,          \* per artifact filename: 0 (absent) or the execution that wrote it
    rate_params,        \* number of devices, batch_size and devices_per_hour of a rate-limited run
    rate_main,          \* the executor thread of that run: position, batch index, total_slept
    rate_stop,          \* stop requested for that run
    topo_in,            \* input of build_topology: per device the parsed neighbor table and cost tables
    topo_pc,            \* position of build_topology
    links,              \* the directional links emitted so far
    physical_links,     \* the physical_links dictionary, in insertion order
    consolidated_links, \* the physical links of the result
    norm_in,            \* the interface string given to the normalizers
    norm_pc,            \* how often the normalizers were applied
    norm_once,          \* normalize(x) of either normalizer
    norm_twice,         \* normalize(normalize(x)) of either normalizer
    file_in,            \* device name, command and start time of an execute_command call
    file_pc,            \* position of the filename round trip
    file_name,          \* the artifact filename execute_command built
    file_parsed,        \* what the two readers parse from it
    split_in,           \* device count and batch_size given to execute_job_async
    split_pc,           \* position of the batch split
    batches,            \* the batches built from the device list
    bc_connected,       \* self.active_connections, a set of sockets
    bc_gone,            \* the sockets that were disconnected
    bc_filter,          \* self.job_subscriptions, per socket
    bc_task,            \* the broadcast_job_update coroutine: position and set iterator
    bc_received,        \* the sockets the update was sent to
    pool_conn,          \* connection_manager.active_connections[device]: 0, or the job that opened the session
    pool_job,           \* per job: position of its thread and its command results
    ref_in,             \* collected devices, valid_devices and neighbor tables given to build_topology
    ref_pc,             \* position of that build_topology run
    ref_topology        \* its nodes, links and physical links

cmvars == <<jumphost_config, bastion_up, jumphost_tunnel, tunnels, jumphost_lock,
            device_channels, connections, conn, saver, pool_at_start>>

wsvars == <<ws_applied, ws_ready, ws_task, ws_paused, ws_drainers, ws_received, ws_serialized>>

artvars == <<art_commands, art_clock, art_pos, art_files>>

ratevars == <<rate_params, rate_main, rate_stop>>

topovars == <<topo_in, topo_pc, links, physical_links, consolidated_links>>

normvars == <<norm_in, norm_pc, norm_once, norm_twice>>

filevars == <<file_in, file_pc, file_name, file_parsed>>

splitvars == <<split_in, split_pc, batches>>

bcvars == <<bc_connected, bc_gone, bc_filter, bc_task, bc_received>>

poolvars == <<pool_conn, pool_job>>

refvars == <<ref_in, ref_pc, ref_topology>>

auxvars == <<wsvars, artvars, ratevars, topovars, normvars, filevars, splitvars, bcvars, poolvars, refvars>>

vars == <<job, broadcasts, active_connections, metadata, current_link,
          params, main, worker, stop_batch, cmvars, auxvars>>

Bump(kind) == [broadcasts EXCEPT ![kind] = @ + 1]

IdleWorker == [pc |-> "idle", i |-> 0, success_count |-> 0, error_count |-> 0,
               res |-> "none", err |-> ""]

ConnThreads == 1..NumConnThreads
TunnelIds == 1..MaxTunnels
ConnDevice(t) == ((t - 1) % NumDevices) + 1

\* the locals of connect: of the config read at line 290 the fields connect
\* uses later, of the config read at line 255 the settings a tunnel is built from
IdleConn == [pc |-> "idle", required |-> FALSE, password_set |-> FALSE,
             tunnel_settings |-> 0, ref |-> 0, via |-> FALSE, result |-> "", after |-> 0]
IdleSaver == [pc |-> "idle", saves |-> 0, completed |-> 0]

\* the connection manager at rest: no tunnel, no thread inside connect
ConnectionManagerAtRest ==
    /\ jumphost_tunnel = 0
    /\ tunnels = [id \in TunnelIds |-> NoTunnel]
    /\ jumphost_lock = 0
    /\ device_channels = {}
    /\ connections = [d \in Devices |-> NoConnection]
    /\ conn = [t \in ConnThreads |-> IdleConn]
    /\ saver = IdleSaver

\* get_current_data_dirs(): the directory a reader obtains from the pointer,
\* the legacy OUTPUT-Data_save when the pointer is missing
GetCurrentDataDirs(link) == IF link = "absent" THEN "legacy" ELSE link

\* no subscriber traffic: nothing applied, scheduled or sent
Subscribers == 1..NumSubscribers
Snapshots == 1..MaxSnapshots
IdleBroadcast == [pc |-> "none", pos |-> 1]
WebSocketsAtRest ==
    /\ ws_applied = 0
    /\ ws_ready = <<>>
    /\ ws_task = [k \in Snapshots |-> IdleBroadcast]
    /\ ws_paused = [s \in Subscribers |-> FALSE]
    /\ ws_drainers = [s \in Subscribers |-> <<>>]
    /\ ws_received = [s \in Subscribers |-> <<>>]
    /\ ws_serialized = [k \in Snapshots |-> 0]

\* Commands are sequences of words and separator characters
Space == " "
Slash == "/"
Underscore == "_"
Hyphen == "-"
ShowProcessCpu == <<"show", Space, "process", Space, "cpu">>
ShowProcessMemory == <<"show", Space, "process", Space, "memory">>
TerminalLength == <<"terminal", Space, "length", Space, "0">>
ShowOspfNeighbor == <<"show", Space, "ospf", Space, "neighbor">>
CommandChoices == {TerminalLength, ShowProcessCpu, ShowOspfNeighbor}
CommandLists == UNION {[1..n -> CommandChoices] : n \in 1..MaxListLen}

\* command.replace(" ", "_").replace("/", "-") (line 830)
CommandFilename(command) ==
    [i \in 1..Len(command) |->
        IF command[i] = Space THEN Underscore
        ELSE IF command[i] = Slash THEN Hyphen ELSE command[i]]

\* the executions of process_device for one device: the two commands of the
\* health gate (lines 428, 440), then the job's commands (line 1162)
ExecutionPlan(commands) == <<ShowProcessCpu, ShowProcessMemory>> \o commands

Seconds == 0..MaxClock
ArtifactNames == {CommandFilename(c) : c \in CommandChoices \cup {ShowProcessMemory}} \X Seconds

\* no artifact written
ArtifactsAtRest ==
    /\ art_commands = <<>>
    /\ art_clock = 0
    /\ art_pos = 1
    /\ art_files = [n \in ArtifactNames |-> 0]

\* no rate-limited run
RateLimiterAtRest ==
    /\ rate_params = [devices |-> 1, batch_size |-> 1, devices_per_hour |-> 0]
    /\ rate_main = [pc |-> "idle", batch_idx |-> 0, total_slept |-> 0]
    /\ rate_stop = FALSE

\* build_topology not running
TopologyAtRest ==
    /\ topo_in = <<>>
    /\ topo_pc = "idle"
    /\ links = <<>>
    /\ physical_links = <<>>
    /\ consolidated_links = <<>>

\* no normalizer call under way
NormalizersAtRest ==
    /\ norm_in = <<>>
    /\ norm_pc = "idle"
    /\ norm_once = <<>>
    /\ norm_twice = <<>>

\* no filename under way
FilenamesAtRest ==
    /\ file_in = <<>>
    /\ file_pc = "idle"
    /\ file_name = <<>>
    /\ file_parsed = <<>>

\* no device list being split
BatchSplitAtRest ==
    /\ split_in = <<>>
    /\ split_pc = "idle"
    /\ batches = <<>>

\* no broadcast under churn
BroadcastAtRest ==
    /\ bc_connected = {}
    /\ bc_gone = {}
    /\ bc_filter = <<>>
    /\ bc_task = <<>>
    /\ bc_received = {}

\* no two jobs sharing the pool
SharedPoolAtRest ==
    /\ pool_conn = 0
    /\ pool_job = <<>>

\* no topology being built for its references
ReferencesAtRest ==
    /\ ref_in = <<>>
    /\ ref_pc = "idle"
    /\ ref_topology = <<>>

\* the components outside the one named g at rest
AuxRest(g) ==
    /\ IF g = "ws" THEN TRUE ELSE WebSocketsAtRest
    /\ IF g = "art" THEN TRUE ELSE ArtifactsAtRest
    /\ IF g = "rate" THEN TRUE ELSE RateLimiterAtRest
    /\ IF g = "topo" THEN TRUE ELSE TopologyAtRest
    /\ IF g = "norm" THEN TRUE ELSE NormalizersAtRest
    /\ IF g = "file" THEN TRUE ELSE FilenamesAtRest
    /\ IF g = "split" THEN TRUE ELSE BatchSplitAtRest
    /\ IF g = "bc" THEN TRUE ELSE BroadcastAtRest
    /\ IF g = "pool" THEN TRUE ELSE SharedPoolAtRest
    /\ IF g = "ref" THEN TRUE ELSE ReferencesAtRest

AuxAtRest == AuxRest("none")

\* everything outside the component under study at rest: a fresh job, an
\* empty pool, the executor not started
ExecutorAtRest(pc) ==
    /\ job = CreateJob(NumDevices)
    /\ broadcasts = [k \in EventKinds |-> IF k = "job_created" THEN 1 ELSE 0]
    /\ active_connections = {}
    /\ metadata = "none"
    /\ current_link = "absent"
    /\ params = [batch_size |-> 1, devices_per_hour |-> 0]
    /\ main = [pc |-> pc, batch_idx |-> 1, disc_pos |-> 1, total_slept |-> 0]
    /\ worker = [d \in Devices |-> IdleWorker]
    /\ stop_batch = -1
    /\ jumphost_config = BastionConfig(FALSE, FALSE, 0)
    /\ bastion_up = TRUE
    /\ ConnectionManagerAtRest
    /\ pool_at_start = {}

ExecutorUnchanged ==
    UNCHANGED <<job, broadcasts, active_connections, metadata, current_link,
                params, main, worker, stop_batch, cmvars>>

\* connection_manager.connect as the executor sees it: with the bastion
\* enabled and unreachable JumphostTunnel.connect raises (lines 130-138) and
\* connect ends at line 417 before anything is stored
PossibleConnectOutcomes_Fallback == ConnectOutcomes
PossibleConnectOutcomes ==
    IF jumphost_config.enabled /\ ~bastion_up THEN {"fail_before_store"} ELSE ConnectOutcomes

\* batches = [device_list[i:i + batch_size] ...] (line 1016)
NumBatches == (NumDevices + params.batch_size - 1) \div params.batch_size
BatchOf(d) == ((d - 1) \div params.batch_size) + 1
Batch(k) == {d \in Devices : BatchOf(d) = k}
BatchLen(k) == Cardinality(Batch(k))
BatchDevice(k, pos) == (k - 1) * params.batch_size + pos

\* batch_delay (lines 1004-1012)
DelayActive == params.devices_per_hour > 0 /\ params.batch_size > 0
BatchDelayTable ==
    [b \in BatchSizeChoices |-> [r \in DevicesPerHourChoices \ {0} |->
        FloatTimes(FloatDiv(b, r), SecondsPerHour)]]
BatchDelay == BatchDelayTable[params.batch_size][params.devices_per_hour]

\* device_result['status'] (line 1175)
DeviceResultStatus(sc, ec) ==
    IF ec = 0 THEN "success" ELSE IF sc > 0 THEN "partial_success" ELSE "failed"

Init ==
    /\ job = CreateJob(NumDevices)
    /\ broadcasts = [k \in EventKinds |-> IF k = "job_created" THEN 1 ELSE 0]
    /\ active_connections \in SUBSET PreConnectable
    /\ metadata = "none"
    /\ current_link \in {"absent", "previous"}
    /\ params \in [batch_size : BatchSizeChoices, devices_per_hour : DevicesPerHourChoices]
    /\ main = [pc |-> "start", batch_idx |-> 1, disc_pos |-> 1, total_slept |-> 0]
    /\ worker = [d \in Devices |-> IdleWorker]
    /\ stop_batch = -1
    /\ jumphost_config = BastionConfig(TRUE, TRUE, 0)
    /\ bastion_up \in BOOLEAN
    /\ ConnectionManagerAtRest
    /\ AuxAtRest
    /\ pool_at_start = active_connections

\* ------------------------------------------------------------------------
\* HTTP API: POST /api/automation/jobs/{job_id}/stop
\* ------------------------------------------------------------------------
BatchInProgress ==
    IF main.pc \in {"start", "batch_check", "sys_progress"}
    THEN main.batch_idx - 1 ELSE main.batch_idx

EnvStopJob ==
    /\ job' = StopJob(job)
    /\ IF StopJobApplies(job)
       THEN /\ broadcasts' = Bump("job_stopping")
            /\ stop_batch' = BatchInProgress
       ELSE UNCHANGED <<broadcasts, stop_batch>>
    /\ UNCHANGED <<active_connections, metadata, current_link, params, main, worker, cmvars, auxvars>>

\* ------------------------------------------------------------------------
\* Executor thread: CommandExecutor.execute_job_async
\* ------------------------------------------------------------------------
\* initial metadata.json (lines 984-996)
MStart ==
    /\ main.pc = "start"
    /\ metadata' = "running"
    /\ main' = [main EXCEPT !.pc = "batch_check"]
    /\ UNCHANGED <<job, broadcasts, active_connections, current_link, params, worker, stop_batch, cmvars, auxvars>>

\* stop check at the head of each batch (line 1020)
MBatchCheck_NoCheck ==
    /\ main.pc = "batch_check"
    /\ main' = [main EXCEPT !.pc = "process"]
    /\ UNCHANGED <<job, broadcasts, active_connections, metadata, current_link, params, worker, stop_batch, cmvars, auxvars>>
MBatchCheck ==
    /\ main.pc = "batch_check"
    /\ main' = [main EXCEPT !.pc = IF IsStopRequested(job) THEN "sys_progress" ELSE "process"]
    /\ UNCHANGED <<job, broadcasts, active_connections, metadata, current_link, params, worker, stop_batch, cmvars, auxvars>>

\* update_job_progress(job_id, "SYSTEM", {"status": "stopped"}); return (lines 1022-1023)
MSystemProgress ==
    /\ main.pc = "sys_progress"
    /\ job' = UpdateJobProgress(job, SYSTEM, "stopped")
    /\ broadcasts' = Bump(ProgressEvent(job'))
    /\ main' = [main EXCEPT !.pc = "done"]
    /\ UNCHANGED <<active_connections, metadata, current_link, params, worker, stop_batch, cmvars, auxvars>>

\* _process_batch: submit process_device for every device of the batch (lines 1191-1194)
MSubmit ==
    /\ main.pc = "process"
    /\ worker' = [d \in Devices |-> IF d \in Batch(main.batch_idx)
                                    THEN [IdleWorker EXCEPT !.pc = "check_stop"]
                                    ELSE worker[d]]
    /\ main' = [main EXCEPT !.pc = "join"]
    /\ UNCHANGED <<job, broadcasts, active_connections, metadata, current_link, params, stop_batch, cmvars, auxvars>>

\* as_completed / pool shutdown: wait for every worker (lines 1195-1196)
MJoin ==
    /\ main.pc = "join"
    /\ \A d \in Batch(main.batch_idx) : worker[d].pc = "done"
    /\ main' = [main EXCEPT !.pc = "disc", !.disc_pos = 1]
    /\ UNCHANGED <<job, broadcasts, active_connections, metadata, current_link, params, worker, stop_batch, cmvars, auxvars>>

\* loop control after the batch: rest of the disconnect loop, then the
\* inter-batch delay, the next batch or the final metadata (lines 1030-1043)
NextBatch(m) ==
    IF m.batch_idx < NumBatches
    THEN [m EXCEPT !.pc = "batch_check", !.batch_idx = @ + 1]
    ELSE [m EXCEPT !.pc = "final_meta"]

AfterBatch(m) ==
    IF m.batch_idx < NumBatches /\ DelayActive
    THEN [m EXCEPT !.pc = "sleep", !.total_slept = 0]
    ELSE NextBatch(m)

AfterDisconnect(m) ==
    IF m.disc_pos < BatchLen(m.batch_idx)
    THEN [m EXCEPT !.pc = "disc", !.disc_pos = @ + 1]
    ELSE AfterBatch(m)

DiscDevice == BatchDevice(main.batch_idx, main.disc_pos)

\* if connection_manager.is_connected(device_id) (line 1205)
MDiscCheck ==
    /\ main.pc = "disc"
    /\ main' = IF IsConnected(active_connections, DiscDevice)
               THEN [main EXCEPT !.pc = "disc_begin"]
               ELSE AfterDisconnect(main)
    /\ UNCHANGED <<job, broadcasts, active_connections, metadata, current_link, params, worker, stop_batch, cmvars, auxvars>>

\* update_device_status(job_id, device_id, "disconnecting") (line 1206)
MDiscBegin ==
    /\ main.pc = "disc_begin"
    /\ job' = UpdateDeviceStatus(job, DiscDevice, "disconnecting", "")
    /\ broadcasts' = Bump("device_status_update")
    /\ main' = [main EXCEPT !.pc = "disc_do"]
    /\ UNCHANGED <<active_connections, metadata, current_link, params, worker, stop_batch, cmvars, auxvars>>

\* connection_manager.disconnect(device_id) (line 1207); an error is caught
\* at line 1210 and skips the "disconnected" update
MDiscDo ==
    /\ main.pc = "disc_do"
    /\ \E raised \in BOOLEAN :
         /\ active_connections' = PoolAfterDisconnect(active_connections, DiscDevice, raised)
         /\ main' = IF raised THEN AfterDisconnect(main) ELSE [main EXCEPT !.pc = "disc_end"]
    /\ UNCHANGED <<job, broadcasts, metadata, current_link, params, worker, stop_batch, cmvars, auxvars>>

\* update_device_status(job_id, device_id, "disconnected") (line 1208)
MDiscEnd ==
    /\ main.pc = "disc_end"
    /\ job' = UpdateDeviceStatus(job, DiscDevice, "disconnected", "")
    /\ broadcasts' = IF UpdateDeviceStatusRaises(job, "disconnected")
                     THEN broadcasts ELSE Bump("device_status_update")
    /\ main' = AfterDisconnect(main)
    /\ UNCHANGED <<active_connections, metadata, current_link, params, worker, stop_batch, cmvars, auxvars>>

\* one round of the sleep loop (lines 1036-1040)
MSleep ==
    /\ main.pc = "sleep"
    /\ main' = IF IsStopRequested(job) THEN [main EXCEPT !.pc = "done"]
               ELSE IF IntLessThanFloat(main.total_slept + SleepChunk, BatchDelay)
               THEN [main EXCEPT !.total_slept = @ + SleepChunk]
               ELSE NextBatch([main EXCEPT !.total_slept = @ + SleepChunk])
    /\ UNCHANGED <<job, broadcasts, active_connections, metadata, current_link, params, worker, stop_batch, cmvars, auxvars>>

\* final metadata.json (lines 1043-1068)
MFinalMetadata ==
    /\ main.pc = "final_meta"
    /\ metadata' = job.status
    /\ main' = [main EXCEPT !.pc = "unlink"]
    /\ UNCHANGED <<job, broadcasts, active_connections, current_link, params, worker, stop_batch, cmvars, auxvars>>

\* if os.path.lexists(current_link): os.unlink(current_link) (lines 1075-1076)
MUnlink ==
    /\ main.pc = "unlink"
    /\ current_link' = IF current_link # "absent" THEN "absent" ELSE current_link
    /\ main' = [main EXCEPT !.pc = "symlink"]
    /\ UNCHANGED <<job, broadcasts, active_connections, metadata, params, worker, stop_batch, cmvars, auxvars>>

\* os.symlink(execution_dir, current_link) (line 1079)
MSymlink ==
    /\ main.pc = "symlink"
    /\ current_link' = "this"
    /\ main' = [main EXCEPT !.pc = "done"]
    /\ UNCHANGED <<job, broadcasts, active_connections, metadata, params, worker, stop_batch, cmvars, auxvars>>

\* ------------------------------------------------------------------------
\* Worker threads: CommandExecutor._process_batch.process_device
\* ------------------------------------------------------------------------
WorkerVarsUnchanged == UNCHANGED <<metadata, current_link, params, main, stop_batch, cmvars, auxvars>>

SetPc(d, pc) == [worker EXCEPT ![d].pc = pc]

\* if job_manager.is_stop_requested(job_id): return (lines 1090-1091)
WCheckStop(d) ==
    /\ worker[d].pc = "check_stop"
    /\ worker' = SetPc(d, IF IsStopRequested(job) THEN "done" ELSE "init")
    /\ UNCHANGED <<job, broadcasts, active_connections>>
    /\ WorkerVarsUnchanged

\* job_manager.init_device_commands(job_id, device_id, commands) (line 1098)
WInit(d) ==
    /\ worker[d].pc = "init"
    /\ job' = InitDeviceCommands(job, d)
    /\ worker' = SetPc(d, "is_connected")
    /\ UNCHANGED <<broadcasts, active_connections>>
    /\ WorkerVarsUnchanged

\* if not connection_manager.is_connected(device_id) (line 1104)
WIsConnected(d) ==
    /\ worker[d].pc = "is_connected"
    /\ worker' = SetPc(d, IF IsConnected(active_connections, d) THEN "verify" ELSE "connecting")
    /\ UNCHANGED <<job, broadcasts, active_connections>>
    /\ WorkerVarsUnchanged

\* job_manager.update_device_status(job_id, device_id, "connecting") (line 1106)
WConnecting(d) ==
    /\ worker[d].pc = "connecting"
    /\ job' = UpdateDeviceStatus(job, d, "connecting", "")
    /\ broadcasts' = Bump("device_status_update")
    /\ worker' = SetPc(d, "connect")
    /\ UNCHANGED active_connections
    /\ WorkerVarsUnchanged

\* connection_manager.connect(device_id, device, timeout=10) (lines 1108-1113)
WConnect(d) ==
    /\ worker[d].pc = "connect"
    /\ \E outcome \in PossibleConnectOutcomes :
         /\ active_connections' = PoolAfterConnect(active_connections, d, outcome)
         /\ worker' = IF outcome = "ok" THEN SetPc(d, "connected")
                      ELSE [worker EXCEPT ![d].pc = "cf_progress", ![d].err = "connect"]
    /\ UNCHANGED <<job, broadcasts>>
    /\ WorkerVarsUnchanged

\* job_manager.update_device_status(job_id, device_id, "connected") (line 1111)
WConnected(d) ==
    /\ worker[d].pc = "connected"
    /\ job' = UpdateDeviceStatus(job, d, "connected", "")
    /\ broadcasts' = Bump("device_status_update")
    /\ worker' = SetPc(d, "verify")
    /\ UNCHANGED active_connections
    /\ WorkerVarsUnchanged

\* if not connection_manager.is_connected(device_id) (line 1122)
WVerify(d) ==
    /\ worker[d].pc = "verify"
    /\ worker' = IF IsConnected(active_connections, d) THEN SetPc(d, "health")
                 ELSE [worker EXCEPT ![d].pc = "cf_progress", ![d].err = "not_connected"]
    /\ UNCHANGED <<job, broadcasts, active_connections>>
    /\ WorkerVarsUnchanged

\* connection failure: update_job_progress with status 'failed' (lines 1115-1117, 1123-1125)
WConnFailProgress_Skip(d) ==
    /\ worker[d].pc = "cf_progress"
    /\ worker' = SetPc(d, "cf_status")
    /\ UNCHANGED <<job, broadcasts, active_connections>>
    /\ WorkerVarsUnchanged
WConnFailProgress(d) ==
    /\ worker[d].pc = "cf_progress"
    /\ job' = UpdateJobProgress(job, d, "failed")
    /\ broadcasts' = Bump(ProgressEvent(job'))
    /\ worker' = SetPc(d, "cf_status")
    /\ UNCHANGED active_connections
    /\ WorkerVarsUnchanged

\* ... then update_device_status "connection_failed" with the error; return (lines 1118-1119, 1126-1127)
WConnFailStatus(d) ==
    /\ worker[d].pc = "cf_status"
    /\ job' = UpdateDeviceStatus(job, d, "connection_failed", worker[d].err)
    /\ broadcasts' = Bump("device_status_update")
    /\ worker' = SetPc(d, "done")
    /\ UNCHANGED active_connections
    /\ WorkerVarsUnchanged

\* health = self.check_device_health(device_id, device_name) (lines 1131-1132);
\* the gate cannot pass without a session in the pool (lines 814-816, 429-430)
WHealth(d) ==
    /\ worker[d].pc = "health"
    /\ \E healthy \in BOOLEAN :
         /\ healthy => IsConnected(active_connections, d)
         /\ worker' = SetPc(d, IF healthy THEN "loop" ELSE "hf_progress")
    /\ UNCHANGED <<job, broadcasts, active_connections>>
    /\ WorkerVarsUnchanged

\* unhealthy: update_job_progress with status 'failed'; return (lines 1133-1136)
WHealthFailProgress(d) ==
    /\ worker[d].pc = "hf_progress"
    /\ job' = UpdateJobProgress(job, d, "failed")
    /\ broadcasts' = Bump(ProgressEvent(job'))
    /\ worker' = SetPc(d, "done")
    /\ UNCHANGED active_connections
    /\ WorkerVarsUnchanged

\* head of the command loop: if is_stop_requested: break (lines 1142-1144)
WLoopCheck(d) ==
    /\ worker[d].pc = "loop"
    /\ worker' = SetPc(d, IF IsStopRequested(job) THEN "final" ELSE "cur_exec")
    /\ UNCHANGED <<job, broadcasts, active_connections>>
    /\ WorkerVarsUnchanged

\* job_manager.update_current_execution(...) (lines 1147-1156)
WCurrentExecution(d) ==
    /\ worker[d].pc = "cur_exec"
    /\ job' = UpdateCurrentExecution(job, d, worker[d].i)
    /\ broadcasts' = Bump("execution_update")
    /\ worker' = SetPc(d, "mark_running")
    /\ UNCHANGED active_connections
    /\ WorkerVarsUnchanged

\* job_manager.update_device_command_status(job_id, device_id, i, "running") (line 1159)
WMarkRunning(d) ==
    /\ worker[d].pc = "mark_running"
    /\ job' = UpdateDeviceCommandStatus(job, d, worker[d].i, "running")
    /\ broadcasts' = Bump("command_update")
    /\ worker' = SetPc(d, "exec")
    /\ UNCHANGED active_connections
    /\ WorkerVarsUnchanged

\* res = self.execute_command(device_id, device_name, cmd) (line 1162)
WExecute(d) ==
    /\ worker[d].pc = "exec"
    /\ \E ok \in BOOLEAN :
         /\ ok => IsConnected(active_connections, d)
         /\ worker' = [worker EXCEPT ![d].pc = "cmd_result",
                                     ![d].res = IF ok THEN "success" ELSE "error"]
    /\ UNCHANGED <<job, broadcasts, active_connections>>
    /\ WorkerVarsUnchanged

\* success_count / error_count and the command's final status (lines 1166-1173)
WCommandResult(d) ==
    /\ worker[d].pc = "cmd_result"
    /\ job' = UpdateDeviceCommandStatus(job, d, worker[d].i,
                  IF worker[d].res = "success" THEN "success" ELSE "failed")
    /\ broadcasts' = Bump("command_update")
    /\ worker' = [worker EXCEPT
                    ![d].success_count = IF worker[d].res = "success" THEN @ + 1 ELSE @,
                    ![d].error_count   = IF worker[d].res = "success" THEN @ ELSE @ + 1,
                    ![d].res = "none",
                    ![d].i   = @ + 1,
                    ![d].pc  = IF worker[d].i + 1 < NumCommands THEN "loop" ELSE "final"]
    /\ UNCHANGED active_connections
    /\ WorkerVarsUnchanged

\* device_result['status'] = ...; update_job_progress (lines 1175-1178)
WFinal(d) ==
    /\ worker[d].pc = "final"
    /\ job' = UpdateJobProgress(job, d,
                  DeviceResultStatus(worker[d].success_count, worker[d].error_count))
    /\ broadcasts' = Bump(ProgressEvent(job'))
    /\ worker' = SetPc(d, "done")
    /\ UNCHANGED active_connections
    /\ WorkerVarsUnchanged

WorkerStep(d) ==
    \/ WCheckStop(d) \/ WInit(d) \/ WIsConnected(d) \/ WConnecting(d)
    \/ WConnect(d) \/ WConnected(d) \/ WVerify(d) \/ WConnFailProgress(d)
    \/ WConnFailStatus(d) \/ WHealth(d) \/ WHealthFailProgress(d)
    \/ WLoopCheck(d) \/ WCurrentExecution(d) \/ WMarkRunning(d)
    \/ WExecute(d) \/ WCommandResult(d) \/ WFinal(d)

MainStep ==
    \/ MStart \/ MBatchCheck \/ MSystemProgress \/ MSubmit \/ MJoin
    \/ MDiscCheck \/ MDiscBegin \/ MDiscDo \/ MDiscEnd \/ MSleep
    \/ MFinalMetadata \/ MUnlink \/ MSymlink

Next ==
    \/ MStart \/ MBatchCheck \/ MSystemProgress \/ MSubmit \/ MJoin
    \/ MDiscCheck \/ MDiscBegin \/ MDiscDo \/ MDiscEnd \/ MSleep
    \/ MFinalMetadata \/ MUnlink \/ MSymlink
    \/ \E d \in Devices :
         \/ WCheckStop(d) \/ WInit(d) \/ WIsConnected(d) \/ WConnecting(d)
         \/ WConnect(d) \/ WConnected(d) \/ WVerify(d) \/ WConnFailProgress(d)
         \/ WConnFailStatus(d) \/ WHealth(d) \/ WHealthFailProgress(d)
         \/ WLoopCheck(d) \/ WCurrentExecution(d) \/ WMarkRunning(d)
         \/ WExecute(d) \/ WCommandResult(d) \/ WFinal(d)
    \/ EnvStopJob

Spec == Init /\ [][Next]_vars

\* the executor thread and the started worker threads keep running: some
\* enabled step of the executor is eventually taken
ExecutorStep == MainStep \/ \E d \in Devices : WorkerStep(d)

FairSpec == Spec /\ WF_vars(ExecutorStep)

\* ------------------------------------------------------------------------
\* The Job Manager driven through its public methods by a sequential
\* caller that reports the devices of the job in list order
\* ------------------------------------------------------------------------
InitJM ==
    /\ \E n \in 1..MaxTotal : job = CreateJob(n)
    /\ broadcasts = [k \in EventKinds |-> IF k = "job_created" THEN 1 ELSE 0]
    /\ active_connections = {}
    /\ metadata = "none"
    /\ current_link = "absent"
    /\ params = [batch_size |-> 1, devices_per_hour |-> 0]
    /\ main = [pc |-> "api", batch_idx |-> 1, disc_pos |-> 1, total_slept |-> 0]
    /\ worker = [d \in Devices |-> IdleWorker]
    /\ stop_batch = -1
    /\ jumphost_config = BastionConfig(FALSE, FALSE, 0)
    /\ bastion_up = TRUE
    /\ ConnectionManagerAtRest
    /\ AuxAtRest
    /\ pool_at_start = {}

JMUnchanged == UNCHANGED <<active_connections, metadata, current_link, params, main, worker, stop_batch, cmvars, auxvars>>

JMUpdateJobProgress ==
    /\ main.pc = "api"
    /\ job.completed_devices < job.total_devices
    /\ job' = UpdateJobProgress(job, job.completed_devices + 1, "success")
    /\ broadcasts' = Bump(ProgressEvent(job'))
    /\ JMUnchanged

JMFailJob ==
    /\ main.pc = "api"
    /\ broadcasts["job_failed"] < MaxFailCalls
    /\ job' = FailJob(job)
    /\ broadcasts' = Bump("job_failed")
    /\ JMUnchanged

NextJM == JMUpdateJobProgress \/ JMFailJob \/ EnvStopJob

SpecJM == InitJM /\ [][NextJM]_vars

\* ------------------------------------------------------------------------
\* The Job Manager's per-command bookkeeping driven through its public
\* methods in any order, as by two process_device runs for one device_id
\* (a job request that names a device twice) or by any other caller
\* ------------------------------------------------------------------------
InitAPI ==
    /\ job = CreateJob(NumDevices)
    /\ broadcasts = [k \in EventKinds |-> IF k = "job_created" THEN 1 ELSE 0]
    /\ active_connections = {}
    /\ metadata = "none"
    /\ current_link = "absent"
    /\ params = [batch_size |-> 1, devices_per_hour |-> 0]
    /\ main = [pc |-> "api", batch_idx |-> 1, disc_pos |-> 1, total_slept |-> 0]
    /\ worker = [d \in Devices |-> IdleWorker]
    /\ stop_batch = -1
    /\ jumphost_config = BastionConfig(FALSE, FALSE, 0)
    /\ bastion_up = TRUE
    /\ ConnectionManagerAtRest
    /\ AuxAtRest
    /\ pool_at_start = {}

CommandStatuses == {"running", "success", "failed"}

\* init_device_commands(job_id, device_id, commands): no broadcast
APIInitDeviceCommands(d) ==
    /\ main.pc = "api"
    /\ job.country_stats[CountryOf(d)].total_commands < MaxInitCalls * NumCommands
    /\ job' = InitDeviceCommands(job, d)
    /\ UNCHANGED broadcasts
    /\ JMUnchanged

\* update_device_command_status(job_id, device_id, command_index, status)
APIUpdateDeviceCommandStatus(d, i, st) ==
    /\ main.pc = "api"
    /\ broadcasts["command_update"] < MaxCommandUpdates
    /\ job' = UpdateDeviceCommandStatus(job, d, i, st)
    /\ broadcasts' = Bump("command_update")
    /\ JMUnchanged

NextAPI ==
    \/ \E d \in Devices : APIInitDeviceCommands(d)
    \/ \E d \in Devices, i \in CommandIdx, st \in CommandStatuses :
          APIUpdateDeviceCommandStatus(d, i, st)

SpecAPI == InitAPI /\ [][NextAPI]_vars

\* ------------------------------------------------------------------------
\* The connection manager: threads running SSHConnectionManager.connect
\* (thread t connects device ConnDevice(t)), save_jumphost_config arriving
\* from the HTTP API at any time, and the bastion dropping a tunnel
\* ------------------------------------------------------------------------
InitCM ==
    /\ job = CreateJob(NumDevices)
    /\ broadcasts = [k \in EventKinds |-> IF k = "job_created" THEN 1 ELSE 0]
    /\ active_connections = {}
    /\ metadata = "none"
    /\ current_link = "absent"
    /\ params = [batch_size |-> 1, devices_per_hour |-> 0]
    /\ main = [pc |-> "cm", batch_idx |-> 1, disc_pos |-> 1, total_slept |-> 0]
    /\ worker = [d \in Devices |-> IdleWorker]
    /\ stop_batch = -1
    /\ jumphost_config \in {BastionConfig(e, pw, 0) : e \in BOOLEAN, pw \in BOOLEAN}
    /\ bastion_up \in BOOLEAN
    /\ ConnectionManagerAtRest
    /\ AuxAtRest
    /\ pool_at_start = {}

CMJobUnchanged ==
    UNCHANGED <<job, broadcasts, metadata, current_link, params, main, worker,
                stop_batch, bastion_up, pool_at_start, auxvars>>

\* an exception inside connect: a held lock is released by its with block,
\* the handler at lines 405-417 raises DeviceConnectionError
ConnRaise(t) == [conn EXCEPT ![t].pc = "done", ![t].result = "error"]
LockAfterRaise(t) == IF jumphost_lock = t THEN 0 ELSE jumphost_lock

\* jumphost_config = load_jumphost_config(); jumphost_required (lines 290-291)
CLoadConfig(t) ==
    /\ main.pc = "cm"
    /\ conn[t].pc = "idle"
    /\ conn' = [conn EXCEPT ![t].pc = "ensure_load",
                            ![t].required = jumphost_config.enabled,
                            ![t].password_set = jumphost_config.password_set,
                            ![t].after = saver.completed]
    /\ UNCHANGED <<active_connections, jumphost_config, jumphost_tunnel, tunnels,
                   jumphost_lock, device_channels, connections, saver>>
    /\ CMJobUnchanged

\* _ensure_jumphost_connected: load_jumphost_config() again; return None
\* when the bastion is not enabled (lines 255-258)
CEnsureLoad(t) ==
    /\ conn[t].pc = "ensure_load"
    /\ conn' = [conn EXCEPT ![t].tunnel_settings = jumphost_config.version,
                            ![t].pc = IF jumphost_config.enabled THEN "lock" ELSE "gate"]
    /\ UNCHANGED <<active_connections, jumphost_config, jumphost_tunnel, tunnels,
                   jumphost_lock, device_channels, connections, saver>>
    /\ CMJobUnchanged

\* with self._jumphost_lock (line 260)
CLock(t) ==
    /\ conn[t].pc = "lock"
    /\ jumphost_lock = 0
    /\ jumphost_lock' = t
    /\ conn' = [conn EXCEPT ![t].pc = "test"]
    /\ UNCHANGED <<active_connections, jumphost_config, jumphost_tunnel, tunnels,
                   device_channels, connections, saver>>
    /\ CMJobUnchanged

\* if self.jumphost_tunnel ... (line 262, first operand)
CTest(t) ==
    /\ conn[t].pc = "test"
    /\ conn' = [conn EXCEPT ![t].pc = IF jumphost_tunnel = 0 THEN "new" ELSE "test_transport"]
    /\ UNCHANGED <<active_connections, jumphost_config, jumphost_tunnel, tunnels,
                   jumphost_lock, device_channels, connections, saver>>
    /\ CMJobUnchanged

\* ... and self.jumphost_tunnel.transport (line 262, second operand): the
\* attribute is read again, and is None when the tunnel was closed meanwhile
CTestTransport(t) ==
    /\ conn[t].pc = "test_transport"
    /\ IF jumphost_tunnel = 0
       THEN /\ conn' = ConnRaise(t)
            /\ jumphost_lock' = LockAfterRaise(t)
       ELSE /\ conn' = [conn EXCEPT ![t].pc = IF tunnels[jumphost_tunnel].transport = "none"
                                               THEN "new" ELSE "is_active"]
            /\ UNCHANGED jumphost_lock
    /\ UNCHANGED <<active_connections, jumphost_config, jumphost_tunnel, tunnels,
                   device_channels, connections, saver>>
    /\ CMJobUnchanged

\* if self.jumphost_tunnel.transport.is_active() (line 263)
CIsActive(t) ==
    /\ conn[t].pc = "is_active"
    /\ IF jumphost_tunnel = 0 \/ tunnels[jumphost_tunnel].transport = "none"
       THEN /\ conn' = ConnRaise(t)
            /\ jumphost_lock' = LockAfterRaise(t)
       ELSE /\ conn' = [conn EXCEPT ![t].pc = IF tunnels[jumphost_tunnel].transport = "active"
                                               THEN "reuse" ELSE "close_old"]
            /\ UNCHANGED jumphost_lock
    /\ UNCHANGED <<active_connections, jumphost_config, jumphost_tunnel, tunnels,
                   device_channels, connections, saver>>
    /\ CMJobUnchanged

\* return self.jumphost_tunnel (line 264): the attribute as it is now
CReuse(t) ==
    /\ conn[t].pc = "reuse"
    /\ conn' = [conn EXCEPT ![t].ref = jumphost_tunnel, ![t].pc = "gate"]
    /\ jumphost_lock' = 0
    /\ UNCHANGED <<active_connections, jumphost_config, jumphost_tunnel, tunnels,
                   device_channels, connections, saver>>
    /\ CMJobUnchanged

\* self.jumphost_tunnel.close() on an expired tunnel (lines 266-267)
CCloseOld(t) ==
    /\ conn[t].pc = "close_old"
    /\ IF jumphost_tunnel = 0
       THEN /\ conn' = ConnRaise(t)
            /\ jumphost_lock' = LockAfterRaise(t)
            /\ UNCHANGED tunnels
       ELSE /\ tunnels' = [tunnels EXCEPT ![jumphost_tunnel].transport = "none"]
            /\ conn' = [conn EXCEPT ![t].pc = "new"]
            /\ UNCHANGED jumphost_lock
    /\ UNCHANGED <<active_connections, jumphost_config, jumphost_tunnel,
                   device_channels, connections, saver>>
    /\ CMJobUnchanged

\* self.jumphost_tunnel = JumphostTunnel(jumphost_config) (line 270), built
\* from the config read at line 255
CNewTunnel(t) ==
    /\ conn[t].pc = "new"
    /\ \E id \in TunnelIds :
         /\ ~tunnels[id].made
         /\ \A other \in TunnelIds : other < id => tunnels[other].made
         /\ tunnels' = [tunnels EXCEPT ![id] = NewTunnel(conn[t].tunnel_settings)]
         /\ jumphost_tunnel' = id
    /\ conn' = [conn EXCEPT ![t].pc = "tunnel_connect"]
    /\ UNCHANGED <<active_connections, jumphost_config, jumphost_lock,
                   device_channels, connections, saver>>
    /\ CMJobUnchanged

\* self.jumphost_tunnel.connect() (line 271; JumphostTunnel.connect, lines
\* 101-138, closes itself and raises when the bastion cannot be reached)
CTunnelConnect(t) ==
    /\ conn[t].pc = "tunnel_connect"
    /\ IF jumphost_tunnel # 0 /\ bastion_up
       THEN /\ tunnels' = [tunnels EXCEPT ![jumphost_tunnel].transport = "active"]
            /\ conn' = [conn EXCEPT ![t].pc = "return_new"]
            /\ UNCHANGED jumphost_lock
       ELSE /\ conn' = ConnRaise(t)
            /\ jumphost_lock' = LockAfterRaise(t)
            /\ UNCHANGED tunnels
    /\ UNCHANGED <<active_connections, jumphost_config, jumphost_tunnel,
                   device_channels, connections, saver>>
    /\ CMJobUnchanged

\* return self.jumphost_tunnel (line 272)
CReturnNew(t) ==
    /\ conn[t].pc = "return_new"
    /\ conn' = [conn EXCEPT ![t].ref = jumphost_tunnel, ![t].pc = "gate"]
    /\ jumphost_lock' = 0
    /\ UNCHANGED <<active_connections, jumphost_config, jumphost_tunnel, tunnels,
                   device_channels, connections, saver>>
    /\ CMJobUnchanged

\* via_jumphost = jumphost_tunnel is not None; the SECURITY block (lines 299-307)
CGate(t) ==
    /\ conn[t].pc = "gate"
    /\ conn' = IF DirectBlocked(conn[t].required, conn[t].ref # 0)
               THEN ConnRaise(t)
               ELSE [conn EXCEPT ![t].via = conn[t].ref # 0,
                                 ![t].pc = IF conn[t].ref # 0 THEN "channel" ELSE "handler"]
    /\ UNCHANGED <<active_connections, jumphost_config, jumphost_tunnel, tunnels,
                   jumphost_lock, device_channels, connections, saver>>
    /\ CMJobUnchanged

\* with self._jumphost_lock: channel = jumphost_tunnel.create_channel(...);
\* self.device_channels[device_id] = channel (lines 360-367; create_channel,
\* lines 140-163, raises without a live transport)
CChannel(t) ==
    /\ conn[t].pc = "channel"
    /\ jumphost_lock = 0
    /\ IF tunnels[conn[t].ref].transport = "active"
       THEN /\ device_channels' = device_channels \cup {ConnDevice(t)}
            /\ conn' = [conn EXCEPT ![t].pc = "handler"]
       ELSE /\ conn' = ConnRaise(t)
            /\ UNCHANGED device_channels
    /\ UNCHANGED <<active_connections, jumphost_config, jumphost_tunnel, tunnels,
                   jumphost_lock, connections, saver>>
    /\ CMJobUnchanged

\* connection = ConnectHandler(**device_params);
\* self.active_connections[device_id] = connection (lines 371-374); a
\* session over a channel needs the tunnel's transport alive
CHandler(t) ==
    /\ conn[t].pc = "handler"
    /\ \E ok \in BOOLEAN :
         /\ (ok /\ conn[t].via) => tunnels[conn[t].ref].transport = "active"
         /\ IF ok
            THEN /\ active_connections' = PoolAfterConnect(active_connections, ConnDevice(t), "ok")
                 /\ connections' = [connections EXCEPT ![ConnDevice(t)] =
                        DeviceParams(ConnDevice(t), conn[t].password_set, conn[t].required, conn[t].via)]
                 /\ conn' = [conn EXCEPT ![t].pc = "prompt"]
            ELSE /\ conn' = ConnRaise(t)
                 /\ UNCHANGED <<active_connections, connections>>
    /\ UNCHANGED <<jumphost_config, jumphost_tunnel, tunnels, jumphost_lock,
                   device_channels, saver>>
    /\ CMJobUnchanged

\* prompt = connection.find_prompt(); return {'status': 'connected', ...}
\* (lines 377-403)
CPrompt(t) ==
    /\ conn[t].pc = "prompt"
    /\ \E ok \in BOOLEAN :
         conn' = IF ok THEN [conn EXCEPT ![t].pc = "done", ![t].result = "connected"]
                 ELSE ConnRaise(t)
    /\ UNCHANGED <<active_connections, jumphost_config, jumphost_tunnel, tunnels,
                   jumphost_lock, device_channels, connections, saver>>
    /\ CMJobUnchanged

ConnectStep(t) ==
    \/ CLoadConfig(t) \/ CEnsureLoad(t) \/ CLock(t) \/ CTest(t) \/ CTestTransport(t)
    \/ CIsActive(t) \/ CReuse(t) \/ CCloseOld(t) \/ CNewTunnel(t) \/ CTunnelConnect(t)
    \/ CReturnNew(t) \/ CGate(t) \/ CChannel(t) \/ CHandler(t) \/ CPrompt(t)

\* save_jumphost_config: json.dump(config, f) (lines 74-75); the saves of
\* the model switch the bastion on or off and keep its password
SWrite ==
    /\ main.pc = "cm"
    /\ saver.pc = "idle"
    /\ saver.saves < MaxSaves
    /\ \E e \in BOOLEAN :
         jumphost_config' = BastionConfig(e, jumphost_config.password_set,
                                          jumphost_config.version + 1)
    /\ saver' = [saver EXCEPT !.pc = "check", !.saves = @ + 1]
    /\ UNCHANGED <<active_connections, jumphost_tunnel, tunnels, jumphost_lock,
                   device_channels, connections, conn>>
    /\ CMJobUnchanged

SaveReturns == [saver EXCEPT !.pc = "idle", !.completed = jumphost_config.version]

\* if ... connection_manager.jumphost_tunnel (line 82)
SCheck ==
    /\ saver.pc = "check"
    /\ saver' = IF jumphost_tunnel # 0 THEN [saver EXCEPT !.pc = "close_test"] ELSE SaveReturns
    /\ UNCHANGED <<active_connections, jumphost_config, jumphost_tunnel, tunnels,
                   jumphost_lock, device_channels, connections, conn>>
    /\ CMJobUnchanged

\* close_jumphost_tunnel: if self.jumphost_tunnel (line 494)
SCloseTest ==
    /\ saver.pc = "close_test"
    /\ saver' = IF jumphost_tunnel # 0 THEN [saver EXCEPT !.pc = "close"] ELSE SaveReturns
    /\ UNCHANGED <<active_connections, jumphost_config, jumphost_tunnel, tunnels,
                   jumphost_lock, device_channels, connections, conn>>
    /\ CMJobUnchanged

\* self.jumphost_tunnel.close() (line 496; JumphostTunnel.close, lines 165-179)
SClose ==
    /\ saver.pc = "close"
    /\ IF jumphost_tunnel # 0
       THEN /\ tunnels' = [tunnels EXCEPT ![jumphost_tunnel].transport = "none"]
            /\ saver' = [saver EXCEPT !.pc = "clear"]
       ELSE /\ saver' = SaveReturns
            /\ UNCHANGED tunnels
    /\ UNCHANGED <<active_connections, jumphost_config, jumphost_tunnel,
                   jumphost_lock, device_channels, connections, conn>>
    /\ CMJobUnchanged

\* self.jumphost_tunnel = None (line 497); return True (line 86)
SClear ==
    /\ saver.pc = "clear"
    /\ jumphost_tunnel' = 0
    /\ saver' = SaveReturns
    /\ UNCHANGED <<active_connections, jumphost_config, tunnels,
                   jumphost_lock, device_channels, connections, conn>>
    /\ CMJobUnchanged

\* a tunnel some thread can still reach: the shared one, or one a running
\* connect holds
TunnelInUse(id) ==
    \/ jumphost_tunnel = id
    \/ \E t \in ConnThreads : conn[t].ref = id /\ conn[t].pc \in {"gate", "channel", "handler"}

\* the bastion drops the SSH session of a tunnel in use:
\* transport.is_active() turns false
EnvTunnelDrops ==
    /\ main.pc = "cm"
    /\ \E id \in TunnelIds :
         /\ TunnelInUse(id)
         /\ tunnels[id].transport = "active"
         /\ tunnels' = [tunnels EXCEPT ![id].transport = "inactive"]
    /\ UNCHANGED <<active_connections, jumphost_config, jumphost_tunnel,
                   jumphost_lock, device_channels, connections, conn, saver>>
    /\ CMJobUnchanged

NextCM ==
    \/ \E t \in ConnThreads :
         \/ CLoadConfig(t) \/ CEnsureLoad(t) \/ CLock(t) \/ CTest(t) \/ CTestTransport(t)
         \/ CIsActive(t) \/ CReuse(t) \/ CCloseOld(t) \/ CNewTunnel(t) \/ CTunnelConnect(t)
         \/ CReturnNew(t) \/ CGate(t) \/ CChannel(t) \/ CHandler(t) \/ CPrompt(t)
    \/ SWrite \/ SCheck \/ SCloseTest \/ SClose \/ SClear
    \/ EnvTunnelDrops

SpecCM == InitCM /\ [][NextCM]_vars

\* ------------------------------------------------------------------------
\* The subscriber stream: mutators of one job schedule broadcast_job_update
\* on the event loop while holding the Job Manager lock; the loop runs the
\* coroutines, each sending its snapshot to every subscriber in turn.
\* send_text writes the frame to the socket and then waits for the socket to
\* drain when its transport has paused writing; waiters of one socket
\* resume in arrival order.
\* ------------------------------------------------------------------------
InitWS ==
    /\ ExecutorAtRest("ws")
    /\ AuxAtRest

\* asyncio.run_coroutine_threadsafe(coro, loop) (lines 98-101): the
\* coroutine is appended to the loop's ready queue
Schedule_Front(q, k) == <<k>> \o q
Schedule(q, k) == Append(q, k)

\* the first subscriber at or after pos whose send suspends, or
\* NumSubscribers + 1 when the coroutine runs to its end
RECURSIVE StopsAt(_, _)
StopsAt(pos, drainers) ==
    IF pos > NumSubscribers THEN pos
    ELSE IF ws_paused[pos] \/ drainers[pos] # <<>> THEN pos
    ELSE StopsAt(pos + 1, drainers)

\* for websocket in self.active_connections: await websocket.send_text(message)
\* (lines 57-63), run from position pos until a send suspends
SendFrom(k, pos, drainers, ready) ==
    LET stop == StopsAt(pos, drainers)
        last == IF stop > NumSubscribers THEN NumSubscribers ELSE stop
    IN  /\ ws_received' = [s \in Subscribers |->
                             IF s >= pos /\ s <= last THEN Append(ws_received[s], k)
                             ELSE ws_received[s]]
        /\ ws_drainers' = IF stop > NumSubscribers THEN drainers
                          ELSE [drainers EXCEPT ![stop] = Append(@, k)]
        /\ ws_ready' = ready
        /\ LET t1 == [ws_task EXCEPT ![k] =
                        IF stop > NumSubscribers THEN [pc |-> "done", pos |-> stop]
                        ELSE [pc |-> "blocked", pos |-> stop + 1]]
           IN  ws_task' = [j \in Snapshots |->
                             IF j # k /\ j \in {ready[i] : i \in 1..Len(ready)}
                                /\ ws_task[j].pc = "blocked"
                             THEN [t1[j] EXCEPT !.pc = "woken"] ELSE t1[j]]

\* a public mutator of the job, under self.lock: the mutation is applied and
\* _broadcast_job_state schedules its snapshot (command_executor.py:71-92)
WSMutate ==
    /\ main.pc = "ws"
    /\ ws_applied < MaxSnapshots
    /\ ws_applied' = ws_applied + 1
    /\ ws_ready' = Schedule(ws_ready, ws_applied + 1)
    /\ ws_task' = [ws_task EXCEPT ![ws_applied + 1] = [pc |-> "ready", pos |-> 1]]
    /\ UNCHANGED <<ws_paused, ws_drainers, ws_received, ws_serialized>>
    /\ UNCHANGED <<artvars, ratevars, topovars, normvars, filevars, splitvars, bcvars, poolvars, refvars>>
    /\ ExecutorUnchanged

\* the loop starts the coroutine at the head of its ready queue: json.dumps
\* (websocket_manager.py:50) serializes the snapshot, whose device_progress,
\* country_stats and errors are the job's own dictionaries and list
\* (command_executor.py:86-88), as they are now
WSStart ==
    /\ ws_ready # <<>>
    /\ ws_task[Head(ws_ready)].pc = "ready"
    /\ ws_serialized' = [ws_serialized EXCEPT ![Head(ws_ready)] = ws_applied]
    /\ SendFrom(Head(ws_ready), 1, ws_drainers, Tail(ws_ready))
    /\ UNCHANGED <<ws_applied, ws_paused>>
    /\ UNCHANGED <<artvars, ratevars, topovars, normvars, filevars, splitvars, bcvars, poolvars, refvars>>
    /\ ExecutorUnchanged

\* the loop resumes a coroutine whose send has drained: it leaves the
\* socket's waiters, the next waiter resumes unless the socket is paused,
\* and the coroutine goes on with the next subscriber
WSContinue ==
    /\ ws_ready # <<>>
    /\ ws_task[Head(ws_ready)].pc = "woken"
    /\ LET k    == Head(ws_ready)
           s    == ws_task[k].pos - 1
           rest == [ws_drainers EXCEPT ![s] = Tail(@)]
           next == IF rest[s] # <<>> /\ ~ws_paused[s]
                      /\ ws_task[Head(rest[s])].pc = "blocked"
                   THEN Append(Tail(ws_ready), Head(rest[s]))
                   ELSE Tail(ws_ready)
       IN  SendFrom(k, ws_task[k].pos, rest, next)
    /\ UNCHANGED <<ws_applied, ws_paused, ws_serialized>>
    /\ UNCHANGED <<artvars, ratevars, topovars, normvars, filevars, splitvars, bcvars, poolvars, refvars>>
    /\ ExecutorUnchanged

\* a subscriber's socket fills up: its transport pauses writing
WSPause(s) ==
    /\ main.pc = "ws"
    /\ ~ws_paused[s]
    /\ ws_paused' = [ws_paused EXCEPT ![s] = TRUE]
    /\ UNCHANGED <<ws_applied, ws_ready, ws_task, ws_drainers, ws_received, ws_serialized>>
    /\ UNCHANGED <<artvars, ratevars, topovars, normvars, filevars, splitvars, bcvars, poolvars, refvars>>
    /\ ExecutorUnchanged

\* the socket has drained: its first waiter resumes
WSResume(s) ==
    /\ ws_paused[s]
    /\ ws_paused' = [ws_paused EXCEPT ![s] = FALSE]
    /\ IF ws_drainers[s] # <<>> /\ ws_task[Head(ws_drainers[s])].pc = "blocked"
       THEN /\ ws_ready' = Append(ws_ready, Head(ws_drainers[s]))
            /\ ws_task' = [ws_task EXCEPT ![Head(ws_drainers[s])].pc = "woken"]
       ELSE UNCHANGED <<ws_ready, ws_task>>
    /\ UNCHANGED <<ws_applied, ws_drainers, ws_received, ws_serialized>>
    /\ UNCHANGED <<artvars, ratevars, topovars, normvars, filevars, splitvars, bcvars, poolvars, refvars>>
    /\ ExecutorUnchanged

NextWS ==
    \/ WSMutate
    \/ WSStart
    \/ WSContinue
    \/ \E s \in Subscribers : WSPause(s)
    \/ \E s \in Subscribers : WSResume(s)

SpecWS == InitWS /\ [][NextWS]_vars

\* ------------------------------------------------------------------------
\* Artifact files of one device in one execution directory: process_device
\* runs the health gate and then the job's commands through
\* execute_command, which writes <device>_<command_filename>_<timestamp>
\* in TEXT and in JSON; the clock advances between and during executions
\* ------------------------------------------------------------------------
InitArt ==
    /\ ExecutorAtRest("art")
    /\ AuxRest("art")
    /\ art_commands \in CommandLists
    /\ art_clock = 0
    /\ art_pos = 1
    /\ art_files = [n \in ArtifactNames |-> 0]

\* execute_command (lines 800-918): start_time is read before the command
\* is sent; a failed execution writes nothing; a failure inside the health
\* gate ends process_device (lines 1131-1136)
ArtExecuteCommand ==
    /\ main.pc = "art"
    /\ art_pos <= Len(ExecutionPlan(art_commands))
    /\ \E ok \in BOOLEAN :
         LET command  == ExecutionPlan(art_commands)[art_pos]
             filename == <<CommandFilename(command), art_clock>>
         IN  /\ art_files' = IF ok THEN [art_files EXCEPT ![filename] = art_pos]
                             ELSE art_files
             /\ art_pos' = IF ~ok /\ art_pos <= 2
                           THEN Len(ExecutionPlan(art_commands)) + 1
                           ELSE art_pos + 1
    /\ UNCHANGED <<art_commands, art_clock, wsvars, ratevars, topovars, normvars, filevars, splitvars, bcvars, poolvars, refvars>>
    /\ ExecutorUnchanged

\* a second passes
ArtTick ==
    /\ main.pc = "art"
    /\ art_clock < MaxClock
    /\ art_clock' = art_clock + 1
    /\ UNCHANGED <<art_commands, art_pos, art_files, wsvars, ratevars, topovars, normvars, filevars, splitvars, bcvars, poolvars, refvars>>
    /\ ExecutorUnchanged

NextArt == ArtExecuteCommand \/ ArtTick

SpecArt == InitArt /\ [][NextArt]_vars

\* ------------------------------------------------------------------------
\* Rate limiting: the batch loop of execute_job_async for a device list of
\* any length, the processing of a batch taken as one step
\* ------------------------------------------------------------------------
RateChoices == {0, SlowRate, SecondsPerHour}

\* batch_delay = (batch_size / devices_per_hour) * 3600 (line 1012)
RateDelayTable ==
    [b \in 1..MaxRateBatchSize |-> [r \in RateChoices \ {0} |->
        FloatTimes(FloatDiv(b, r), SecondsPerHour)]]
RateDelay == RateDelayTable[rate_params.batch_size][rate_params.devices_per_hour]
RateDelayActive == rate_params.devices_per_hour > 0 /\ rate_params.batch_size > 0

\* len(batches) (line 1016)
RateNumBatches ==
    (rate_params.devices + rate_params.batch_size - 1) \div rate_params.batch_size

InitRate ==
    /\ ExecutorAtRest("rate")
    /\ AuxRest("rate")
    /\ rate_params \in [devices : 1..MaxRateDevices, batch_size : 1..MaxRateBatchSize,
                        devices_per_hour : RateChoices]
    /\ rate_main = [pc |-> "batch", batch_idx |-> 0, total_slept |-> 0]
    /\ rate_stop = FALSE

RateUnchanged ==
    /\ UNCHANGED <<rate_params, wsvars, artvars, topovars, normvars, filevars, splitvars, bcvars, poolvars, refvars>>
    /\ ExecutorUnchanged

\* POST /api/automation/jobs/{job_id}/stop
RateStop ==
    /\ rate_main.pc # "idle"
    /\ ~rate_stop
    /\ rate_stop' = TRUE
    /\ UNCHANGED rate_main
    /\ RateUnchanged

\* head of the batch loop: stop check, then _process_batch (lines 1018-1028)
RateBatch ==
    /\ rate_main.pc = "batch"
    /\ rate_main' = [rate_main EXCEPT !.pc = IF rate_stop THEN "done" ELSE "after"]
    /\ UNCHANGED rate_stop
    /\ RateUnchanged

RateNextBatch(m) ==
    IF m.batch_idx < RateNumBatches - 1
    THEN [m EXCEPT !.pc = "batch", !.batch_idx = @ + 1]
    ELSE [m EXCEPT !.pc = "done"]

\* if batch_idx < len(batches) - 1 and batch_delay > 0 (lines 1031-1035)
RateAfterBatch ==
    /\ rate_main.pc = "after"
    /\ rate_main' = IF rate_main.batch_idx < RateNumBatches - 1 /\ RateDelayActive
                    THEN [rate_main EXCEPT !.pc = "sleep", !.total_slept = 0]
                    ELSE RateNextBatch(rate_main)
    /\ UNCHANGED rate_stop
    /\ RateUnchanged

\* one round of the sleep loop (lines 1036-1040)
RateSleep ==
    /\ rate_main.pc = "sleep"
    /\ rate_main' = IF rate_stop THEN [rate_main EXCEPT !.pc = "done"]
                    ELSE IF IntLessThanFloat(rate_main.total_slept + SleepChunk, RateDelay)
                    THEN [rate_main EXCEPT !.total_slept = @ + SleepChunk]
                    ELSE RateNextBatch([rate_main EXCEPT !.total_slept = @ + SleepChunk])
    /\ UNCHANGED rate_stop
    /\ RateUnchanged

NextRate == RateStop \/ RateBatch \/ RateAfterBatch \/ RateSleep

SpecRate == InitRate /\ [][NextRate]_vars

\* ========================================================================
\* TopologyBuilder.build_topology: directional links, cost resolution and
\* physical link consolidation (topology_builder.py).  Interface names are
\* sequences of tokens; the routers are named by their sort rank.
\* ========================================================================

DEFAULT_OSPF_COST == 1

\* Python's None in a cost field / in an interface field
None == -1
NoInterface == <<>>

\* "Gi<n>" as written in the neighbor table, "GigabitEthernet<n>" as written
\* in the running configuration
GiShort(n) == <<"Gi", n>>
GiFull(n) == <<"Gi", "gabitEthernet", n>>

\* _normalize_interface_name of the topology builder: a name that starts
\* with a full name is returned as it is, otherwise a leading abbreviation is
\* replaced once by its full name
NormalizeInterfaceName(interface) ==
    IF interface = <<>> THEN interface
    ELSE IF Len(interface) >= 2 /\ interface[1] = "Gi" /\ interface[2] = "gabitEthernet"
         THEN interface
    ELSE IF interface[1] = "Gi"
         THEN <<"Gi", "gabitEthernet">> \o Tail(interface)
    ELSE interface

\* Python truthiness of a cost: None and 0 are both false
CostIsSet(cost) == cost # None /\ cost # 0

\* first cost of the router LSA whose link is attached to both routers
RECURSIVE FirstAttached(_)
FirstAttached(link_costs) ==
    IF link_costs = <<>> THEN [found |-> FALSE, cost |-> None]
    ELSE IF Head(link_costs).attached THEN [found |-> TRUE, cost |-> Head(link_costs).cost]
    ELSE FirstAttached(Tail(link_costs))

\* Methods 1..4 of the cost search, each one run when the cost found so far
\* is not set
ResolveCost(interface, configured_costs, interface_costs, link_costs) ==
    LET normalized_interface == NormalizeInterfaceName(interface)
        m1 == IF normalized_interface \in DOMAIN configured_costs
              THEN [cost |-> configured_costs[normalized_interface], cost_source |-> "configured"]
              ELSE [cost |-> None, cost_source |-> "None"]
        m2 == IF CostIsSet(m1.cost) THEN m1
              ELSE IF interface \in DOMAIN interface_costs
                   THEN [cost |-> interface_costs[interface], cost_source |-> "operational"]
              ELSE IF normalized_interface \in DOMAIN interface_costs
                   THEN [cost |-> interface_costs[normalized_interface], cost_source |-> "operational"]
              ELSE m1
        lsa == FirstAttached(link_costs)
        m3 == IF CostIsSet(m2.cost) \/ ~lsa.found THEN m2
              ELSE [cost |-> lsa.cost, cost_source |-> "lsa"]
    IN  IF CostIsSet(m3.cost) THEN m3
        ELSE [cost |-> DEFAULT_OSPF_COST, cost_source |-> "default"]

\* the two routers, in sort order
RouterA == 1
RouterB == 2
Routers == {RouterA, RouterB}
Peer(device) == IF device = RouterA THEN RouterB ELSE RouterA

\* the directional links one device's neighbor table adds: one per row in
\* state FULL, never deduplicated
RECURSIVE DeviceLinks(_, _, _)
DeviceLinks(device, rows, data) ==
    IF rows = <<>> THEN <<>>
    ELSE LET row == Head(rows)
             found == ResolveCost(row.interface, data.configured_costs,
                                  data.interface_costs, data.link_costs)
             rest == DeviceLinks(device, Tail(rows), data)
         IN  IF row.state # "FULL" THEN rest
             ELSE <<[source |-> device, target |-> Peer(device),
                     cost |-> found.cost, cost_source |-> found.cost_source,
                     source_interface |-> row.interface]>> \o rest

\* position of a key in the physical_links dictionary, 0 when absent
KeyIndex(phys, key) ==
    IF \E i \in 1..Len(phys) : phys[i].key = key
    THEN CHOOSE i \in 1..Len(phys) : phys[i].key = key
    ELSE 0

\* Pass 1: every A->B link creates the entry keyed by its interface unless
\* the key is there already
\* a variant that keys the entry by the router pair alone
PassOneKey_RouterPair(link) == <<link.source, link.target, NoInterface>>

PassOneKey(link) == <<link.source, link.target, link.source_interface>>

RECURSIVE PassOne(_, _)
PassOne(ls, phys) ==
    IF ls = <<>> THEN phys
    ELSE LET link == Head(ls)
             key == PassOneKey(link)
         IN  IF link.source = RouterA /\ KeyIndex(phys, key) = 0
             THEN PassOne(Tail(ls), Append(phys,
                    [key |-> key, router_a |-> RouterA, router_b |-> RouterB,
                     cost_a_to_b |-> link.cost, cost_b_to_a |-> None,
                     interface_a |-> link.source_interface, interface_b |-> NoInterface]))
             ELSE PassOne(Tail(ls), phys)

\* a variant without the preference for the same interface name
MatchedKey_LastUnset(phys, interface_b) ==
    LET unset == {i \in 1..Len(phys) : phys[i].interface_b = NoInterface}
    IN  IF unset # {} THEN CHOOSE i \in unset : \A j \in unset : j <= i
        ELSE 0

\* the entry a B->A link is matched to: the first unmatched entry with the
\* same interface name, otherwise the last unmatched entry, otherwise 0
MatchedKey(phys, interface_b) ==
    LET exact == {i \in 1..Len(phys) : phys[i].interface_a = interface_b
                                       /\ phys[i].interface_b = NoInterface}
        unset == {i \in 1..Len(phys) : phys[i].interface_b = NoInterface}
    IN  IF exact # {} THEN CHOOSE i \in exact : \A j \in exact : i <= j
        ELSE IF unset # {} THEN CHOOSE i \in unset : \A j \in unset : j <= i
        ELSE 0

\* Pass 2: every B->A link fills the entry it is matched to, or makes an
\* orphan entry
RECURSIVE PassTwo(_, _)
PassTwo(ls, phys) ==
    IF ls = <<>> THEN phys
    ELSE LET link == Head(ls)
             interface_b == link.source_interface
             matched_key == MatchedKey(phys, interface_b)
             key == <<RouterA, RouterB, <<"B2A-">> \o interface_b>>
             orphan == [key |-> key, router_a |-> RouterA, router_b |-> RouterB,
                        cost_a_to_b |-> None, cost_b_to_a |-> link.cost,
                        interface_a |-> NoInterface, interface_b |-> interface_b]
         IN  IF link.source # RouterB THEN PassTwo(Tail(ls), phys)
             ELSE IF matched_key # 0
             THEN PassTwo(Tail(ls), [phys EXCEPT ![matched_key].cost_b_to_a = link.cost,
                                                 ![matched_key].interface_b = interface_b])
             ELSE IF KeyIndex(phys, key) # 0
             THEN PassTwo(Tail(ls), [phys EXCEPT ![KeyIndex(phys, key)] = orphan])
             ELSE PassTwo(Tail(ls), Append(phys, orphan))

\* a variant that ignores a missing cost
IsAsymmetric_IgnoringNone(cost_a, cost_b) == cost_a # cost_b

IsAsymmetric(cost_a, cost_b) == cost_a # None /\ cost_b # None /\ cost_a # cost_b

Consolidate(phys) ==
    [i \in 1..Len(phys) |->
        [router_a |-> phys[i].router_a, router_b |-> phys[i].router_b,
         cost_a_to_b |-> phys[i].cost_a_to_b, cost_b_to_a |-> phys[i].cost_b_to_a,
         interface_a |-> phys[i].interface_a, interface_b |-> phys[i].interface_b,
         is_asymmetric |-> IsAsymmetric(phys[i].cost_a_to_b, phys[i].cost_b_to_a)]]

\* ---- inputs ----
Costs == 0..MaxCost
NeighborInterfaces == {GiShort("1"), GiShort("2"), GiShort("3")}
NeighborRows ==
    [interface : NeighborInterfaces, state : {"FULL"}]
        \cup {[interface |-> GiShort("1"), state |-> "INIT"]}
NeighborTables == UNION {[1..n -> NeighborRows] : n \in 0..MaxRows}

\* dictionaries over a set of keys, each key present or not
Dicts(keys, values) == UNION {[ks -> values] : ks \in SUBSET keys}

\* a device with a neighbor table and few cost tables
TableData ==
    [ospf_neighbor : NeighborTables,
     configured_costs : {<<>>, [k \in {GiFull("1")} |-> MaxCost]},
     interface_costs : {<<>>},
     link_costs : {<<>>}]

\* a device with one adjacency and every combination of cost tables
CostData ==
    [ospf_neighbor : {<<[interface |-> i, state |-> "FULL"]>> : i \in {GiShort("1"), GiFull("1")}},
     configured_costs : Dicts({GiFull("1")}, Costs),
     interface_costs : Dicts({GiShort("1"), GiFull("1")}, Costs),
     link_costs : UNION {[1..n -> [cost : Costs, attached : BOOLEAN]] : n \in 0..1}]

NoData ==
    [ospf_neighbor |-> <<>>, configured_costs |-> <<>>,
     interface_costs |-> <<>>, link_costs |-> <<>>]

InitTopo ==
    /\ ExecutorAtRest("topo")
    /\ AuxRest("topo")
    /\ topo_in \in [Routers -> TableData]
                     \cup {[d \in Routers |-> IF d = RouterA THEN a ELSE NoData] : a \in CostData}
    /\ topo_pc = "links"
    /\ links = <<>>
    /\ physical_links = <<>>
    /\ consolidated_links = <<>>

TopoUnchanged ==
    /\ UNCHANGED <<topo_in, wsvars, artvars, ratevars, normvars, filevars, splitvars, bcvars, poolvars, refvars>>
    /\ ExecutorUnchanged

\* step 5 of build_topology: the directional links of every device
TopoBuildLinks ==
    /\ topo_pc = "links"
    /\ links' = DeviceLinks(RouterA, topo_in[RouterA].ospf_neighbor, topo_in[RouterA])
                  \o DeviceLinks(RouterB, topo_in[RouterB].ospf_neighbor, topo_in[RouterB])
    /\ topo_pc' = "pass1"
    /\ UNCHANGED <<physical_links, consolidated_links>>
    /\ TopoUnchanged

TopoPassOne ==
    /\ topo_pc = "pass1"
    /\ physical_links' = PassOne(links, <<>>)
    /\ topo_pc' = "pass2"
    /\ UNCHANGED <<links, consolidated_links>>
    /\ TopoUnchanged

TopoPassTwo ==
    /\ topo_pc = "pass2"
    /\ physical_links' = PassTwo(links, physical_links)
    /\ topo_pc' = "consolidate"
    /\ UNCHANGED <<links, consolidated_links>>
    /\ TopoUnchanged

TopoConsolidate ==
    /\ topo_pc = "consolidate"
    /\ consolidated_links' = Consolidate(physical_links)
    /\ topo_pc' = "done"
    /\ UNCHANGED <<links, physical_links>>
    /\ TopoUnchanged

NextTopo ==
    \/ TopoBuildLinks
    \/ TopoPassOne
    \/ TopoPassTwo
    \/ TopoConsolidate

SpecTopo == InitTopo /\ [][NextTopo]_vars

\* ========================================================================
\* The two interface normalizers: TopologyBuilder._normalize_interface_name
\* (NormalizeInterfaceName above) and
\* InterfaceTransformer._normalize_interface_name (interface_transformer.py).
\* ========================================================================

Newline == "\n"
Dot == "."

\* the pieces interface strings are made of
InterfaceTokens ==
    {"Gi", "gabitEthernet", "Nu", "ll", "1", Space, Newline, "Hold", "time", Dot, "Capability"}
InterfaceStrings == UNION {[1..n -> InterfaceTokens] : n \in 0..MaxNameLen}

StartsWith(seq, prefix) ==
    /\ Len(seq) >= Len(prefix)
    /\ SubSeq(seq, 1, Len(prefix)) = prefix

\* the string up to the first place where the token sequence word starts
\* (re.sub(word + '.*', '', ...)), the whole string when it starts nowhere
CutFrom(seq, word) ==
    LET hits == {i \in 1..Len(seq) : StartsWith(SubSeq(seq, i, Len(seq)), word)}
    IN  IF hits = {} THEN seq
        ELSE SubSeq(seq, 1, (CHOOSE i \in hits : \A j \in hits : i <= j) - 1)

\* INTERFACE_NORMALIZATION_MAP, the entries the tokens can spell
InterfaceNormalizationMap ==
    <<[full_form |-> <<"Gi", "gabitEthernet">>, abbrev |-> <<"Gi">>],
      [full_form |-> <<"Nu", "ll">>, abbrev |-> <<"Nu">>]>>

RECURSIVE Abbreviate(_, _, _)
Abbreviate(interface, subintf_suffix, map) ==
    IF map = <<>> THEN interface \o subintf_suffix
    ELSE IF StartsWith(interface, Head(map).full_form)
         THEN Head(map).abbrev
                \o SubSeq(interface, Len(Head(map).full_form) + 1, Len(interface))
                \o subintf_suffix
         ELSE Abbreviate(interface, subintf_suffix, Tail(map))

\* _normalize_interface_name of the interface transformer: control characters
\* out, "Holdtime..." and "Capability..." cut, white space out, the part
\* before the first "." abbreviated
TransformerNormalize(interface) ==
    LET no_control == SelectSeq(interface, LAMBDA t : t # Newline)
        no_garbage == CutFrom(CutFrom(no_control, <<"Hold", "time">>), <<"Capability">>)
        no_space == SelectSeq(no_garbage, LAMBDA t : t # Space)
        parent == CutFrom(no_space, <<Dot>>)
        subintf_suffix == SubSeq(no_space, Len(parent) + 1, Len(no_space))
    IN  IF interface = <<>> \/ no_space = <<>> THEN <<>>
        ELSE Abbreviate(parent, subintf_suffix, InterfaceNormalizationMap)

Normalized(x) ==
    [builder |-> NormalizeInterfaceName(x.builder),
     transformer |-> TransformerNormalize(x.transformer)]

InitNorm ==
    /\ ExecutorAtRest("norm")
    /\ AuxRest("norm")
    /\ norm_in \in InterfaceStrings
    /\ norm_pc = "input"
    /\ norm_once = <<>>
    /\ norm_twice = <<>>

NormUnchanged ==
    /\ UNCHANGED <<norm_in, wsvars, artvars, ratevars, topovars, filevars, splitvars, bcvars, poolvars, refvars>>
    /\ ExecutorUnchanged

\* normalize(x)
NormalizeOnce ==
    /\ norm_pc = "input"
    /\ norm_once' = Normalized([builder |-> norm_in, transformer |-> norm_in])
    /\ norm_pc' = "once"
    /\ UNCHANGED norm_twice
    /\ NormUnchanged

\* normalize(normalize(x))
NormalizeTwice ==
    /\ norm_pc = "once"
    /\ norm_twice' = Normalized(norm_once)
    /\ norm_pc' = "twice"
    /\ UNCHANGED norm_once
    /\ NormUnchanged

NextNorm ==
    \/ NormalizeOnce
    \/ NormalizeTwice

SpecNorm == InitNorm /\ [][NextNorm]_vars

\* ========================================================================
\* Artifact filenames: built by CommandExecutor.execute_command, read back by
\* TopologyBuilder.build_topology and InterfaceTransformer._extract_device_name.
\* ========================================================================

\* device names: any string is accepted (server.py, deviceName: str)
DeviceNameTokens == {"r1", "nyc", "show", Underscore}
DeviceNames == UNION {[1..n -> DeviceNameTokens] : n \in 1..MaxNameLen}

\* start_time.strftime("%Y-%m-%d_%H-%M-%S")
Dates == {"2025-01-01"}
Times == {"00-00-00", "23-59-59"}
Timestamps == {<<d, Underscore, t>> : d \in Dates, t \in Times}

\* f"{device_name}_{command_filename}_{timestamp}.txt"
ArtifactFilename(device_name, command, timestamp) ==
    device_name \o <<Underscore>> \o CommandFilename(command)
        \o <<Underscore>> \o timestamp \o <<".txt">>

\* the topology builder: the device name is what precedes the first
\* "_show_", the timestamp the first date_time match; a name without either
\* is skipped
ShowSeparator == <<Underscore, "show", Underscore>>

IsTimestampAt(name, i) ==
    /\ i + Len(ShowSeparator) - 1 <= Len(name)
    /\ name[i] \in Dates
    /\ name[i + 1] = Underscore
    /\ name[i + Len(ShowSeparator) - 1] \in Times

BuilderParse(name) ==
    LET stamps == {i \in 1..Len(name) : IsTimestampAt(name, i)}
        first == CHOOSE i \in stamps : \A j \in stamps : i <= j
    IN  IF CutFrom(name, ShowSeparator) = name \/ stamps = {}
        THEN [skipped |-> TRUE, device_name |-> <<>>, timestamp |-> <<>>]
        ELSE [skipped |-> FALSE,
              device_name |-> CutFrom(name, ShowSeparator),
              timestamp |-> SubSeq(name, first, first + Len(ShowSeparator) - 1)]

\* the interface transformer: filename.split("_")[0]
ExtractDeviceName(name) == CutFrom(name, <<Underscore>>)

InitFile ==
    /\ ExecutorAtRest("file")
    /\ AuxRest("file")
    /\ file_in \in [device_name : DeviceNames, command : CommandChoices, timestamp : Timestamps]
    /\ file_pc = "input"
    /\ file_name = <<>>
    /\ file_parsed = <<>>

FileUnchanged ==
    /\ UNCHANGED <<file_in, wsvars, artvars, ratevars, topovars, normvars, splitvars, bcvars, poolvars, refvars>>
    /\ ExecutorUnchanged

\* execute_command names the artifact
FileBuild ==
    /\ file_pc = "input"
    /\ file_name' = ArtifactFilename(file_in.device_name, file_in.command, file_in.timestamp)
    /\ file_pc' = "written"
    /\ UNCHANGED file_parsed
    /\ FileUnchanged

\* the two readers parse the name
FileParse ==
    /\ file_pc = "written"
    /\ file_parsed' = [builder |-> BuilderParse(file_name),
                       transformer |-> ExtractDeviceName(file_name)]
    /\ file_pc' = "parsed"
    /\ UNCHANGED file_name
    /\ FileUnchanged

NextFile ==
    \/ FileBuild
    \/ FileParse

SpecFile == InitFile /\ [][NextFile]_vars

\* ========================================================================
\* The batch split of execute_job_async (command_executor.py, line 1016):
\* [device_list[i:i + batch_size] for i in range(0, len(device_list), batch_size)]
\* ========================================================================

\* range(0, n, step) for step >= 0: its start values, or the ValueError that
\* range raises for a step of zero
RangeStarts(n, step) ==
    IF step = 0 THEN [raised |-> TRUE, starts |-> <<>>]
    ELSE [raised |-> FALSE,
          starts |-> [k \in 1..((n + step - 1) \div step) |-> (k - 1) * step]]

\* device_list[i:i + batch_size]
Slice(device_list, i, batch_size) ==
    SubSeq(device_list, i + 1,
           IF i + batch_size <= Len(device_list) THEN i + batch_size ELSE Len(device_list))

SplitIntoBatches(device_list, batch_size) ==
    LET r == RangeStarts(Len(device_list), batch_size)
    IN  [raised |-> r.raised,
         batches |-> [k \in 1..Len(r.starts) |-> Slice(device_list, r.starts[k], batch_size)]]

DeviceList(n) == [i \in 1..n |-> i]

InitSplit ==
    /\ ExecutorAtRest("split")
    /\ AuxRest("split")
    /\ split_in \in [devices : 0..MaxSplitDevices, batch_size : 0..MaxSplitSize]
    /\ split_pc = "start"
    /\ batches = <<>>

\* execute_job_async reaches the split
SplitDevices ==
    /\ split_pc = "start"
    /\ batches' = SplitIntoBatches(DeviceList(split_in.devices), split_in.batch_size)
    /\ split_pc' = "split"
    /\ UNCHANGED <<split_in, wsvars, artvars, ratevars, topovars, normvars, filevars, bcvars, poolvars, refvars>>
    /\ ExecutorUnchanged

NextSplit == SplitDevices

SpecSplit == InitSplit /\ [][NextSplit]_vars

\* ========================================================================
\* One broadcast_job_update coroutine while clients connect and disconnect
\* (websocket_manager.py:29-70, server.py:602-646).  A client is one
\* WebSocket object: once disconnected it does not come back.
\* ========================================================================

Clients == 1..NumClients

\* job_subscriptions.get(websocket): no entry, this job, another job
Filters == {"all", "job", "other"}

\* if subscribed_job is None or subscribed_job == job_id (line 60)
FilterMatches(f) == f \in {"all", "job"}

InitBC ==
    /\ ExecutorAtRest("bc")
    /\ AuxRest("bc")
    /\ bc_connected \in SUBSET Clients
    /\ bc_gone = {}
    /\ bc_filter \in [Clients -> Filters]
    /\ bc_task = [pc |-> "scheduled", size |-> 0, start |-> {}, visited |-> {}]
    /\ bc_received = {}

BCUnchanged ==
    /\ UNCHANGED <<bc_filter, wsvars, artvars, ratevars, topovars, normvars, filevars, splitvars, poolvars, refvars>>
    /\ ExecutorUnchanged

\* the coroutine is suspended in a send, or not running
BCLoopFree == bc_task.pc \in {"scheduled", "suspended", "done", "failed"}

\* websocket_job_updates of another client runs connect (line 32)
BCConnect(s) ==
    /\ BCLoopFree
    /\ s \notin bc_connected
    /\ s \notin bc_gone
    /\ bc_connected' = bc_connected \cup {s}
    /\ UNCHANGED <<bc_gone, bc_task, bc_received>>
    /\ BCUnchanged

\* websocket_job_updates of another client runs disconnect (line 39)
BCDisconnect(s) ==
    /\ BCLoopFree
    /\ s \in bc_connected
    /\ bc_connected' = bc_connected \ {s}
    /\ bc_gone' = bc_gone \cup {s}
    /\ UNCHANGED <<bc_task, bc_received>>
    /\ BCUnchanged

\* for websocket in self.active_connections (line 57): the set iterator is made
BCStart ==
    /\ bc_task.pc = "scheduled"
    /\ bc_task' = [pc |-> "iterating", size |-> Cardinality(bc_connected),
                   start |-> bc_connected, visited |-> {}]
    /\ UNCHANGED <<bc_connected, bc_gone, bc_received>>
    /\ BCUnchanged

\* the next step of the set iterator: RuntimeError when the set changed size
\* since the iterator was made
BCIterate ==
    /\ bc_task.pc \in {"iterating", "suspended"}
    /\ Cardinality(bc_connected) = bc_task.size

\* the set changed size: the for statement raises, outside the try
BCRaise ==
    /\ bc_task.pc \in {"iterating", "suspended"}
    /\ Cardinality(bc_connected) # bc_task.size
    /\ bc_task' = [bc_task EXCEPT !.pc = "failed"]
    /\ UNCHANGED <<bc_connected, bc_gone, bc_received>>
    /\ BCUnchanged

\* the iterator yields a socket: it is sent the message when its filter
\* matches (lines 59-61), and the coroutine is suspended in the send
BCVisit(s) ==
    /\ BCIterate
    /\ s \in bc_connected \ bc_task.visited
    /\ bc_task' = [bc_task EXCEPT !.visited = @ \cup {s},
                                  !.pc = IF FilterMatches(bc_filter[s])
                                         THEN "suspended" ELSE "iterating"]
    /\ bc_received' = IF FilterMatches(bc_filter[s])
                      THEN bc_received \cup {s} ELSE bc_received
    /\ UNCHANGED <<bc_connected, bc_gone>>
    /\ BCUnchanged

\* the iterator is exhausted; a socket added since the iterator was made may
\* have been placed behind or before its position
BCEnd ==
    /\ bc_task.pc \in {"iterating", "suspended"}
    /\ Cardinality(bc_connected) = bc_task.size
    /\ (bc_connected \ bc_task.visited) \cap bc_task.start = {}
    /\ bc_task' = [bc_task EXCEPT !.pc = "done"]
    /\ UNCHANGED <<bc_connected, bc_gone, bc_received>>
    /\ BCUnchanged

NextBC ==
    \/ \E s \in Clients : BCConnect(s)
    \/ \E s \in Clients : BCDisconnect(s)
    \/ BCStart
    \/ BCRaise
    \/ \E s \in Clients : BCVisit(s)
    \/ BCEnd

SpecBC == InitBC /\ [][NextBC]_vars

\* ========================================================================
\* Two jobs over one device through the shared connection pool
\* (command_executor.py: process_device 1103-1110, execute_command 812-816,
\* auto-disconnect 1198-1211; connection_manager.py: disconnect 419-467).
\* ========================================================================

Jobs == 1..NumJobs

InitPool ==
    /\ ExecutorAtRest("pool")
    /\ AuxRest("pool")
    /\ pool_conn = 0
    /\ pool_job = [j \in Jobs |-> [pc |-> "is_connected", i |-> 1, errors |-> 0]]

PoolUnchanged ==
    /\ UNCHANGED <<wsvars, artvars, ratevars, topovars, normvars, filevars, splitvars, bcvars, refvars>>
    /\ ExecutorUnchanged

\* if not connection_manager.is_connected(device_id) (line 1104)
PoolIsConnected(j) ==
    /\ pool_job[j].pc = "is_connected"
    /\ pool_job' = [pool_job EXCEPT ![j].pc = IF pool_conn # 0 THEN "execute" ELSE "connect"]
    /\ UNCHANGED pool_conn
    /\ PoolUnchanged

\* connection_manager.connect(device_id, device, timeout=10) (line 1110): the
\* session is stored under the device id, or the connect fails
PoolConnect(j) ==
    /\ pool_job[j].pc = "connect"
    /\ \E ok \in BOOLEAN :
        /\ pool_conn' = IF ok THEN j ELSE pool_conn
        /\ pool_job' = [pool_job EXCEPT ![j].pc = IF ok THEN "execute" ELSE "disc_check"]
    /\ PoolUnchanged

\* execute_command: get_connection(device_id), DeviceConnectionError when
\* there is none (lines 812-816)
PoolExecute(j) ==
    /\ pool_job[j].pc = "execute"
    /\ pool_job' = [pool_job EXCEPT
            ![j].errors = IF pool_conn = 0 THEN @ + 1 ELSE @,
            ![j].i = @ + 1,
            ![j].pc = IF pool_job[j].i = NumCommands THEN "disc_check" ELSE "execute"]
    /\ UNCHANGED pool_conn
    /\ PoolUnchanged

\* end of the batch: if connection_manager.is_connected(device_id) (line 1205)
PoolDiscCheck(j) ==
    /\ pool_job[j].pc = "disc_check"
    /\ pool_job' = [pool_job EXCEPT ![j].pc = IF pool_conn # 0 THEN "disc_do" ELSE "done"]
    /\ UNCHANGED pool_conn
    /\ PoolUnchanged

\* connection_manager.disconnect(device_id) (line 1207)
PoolDisconnect(j) ==
    /\ pool_job[j].pc = "disc_do"
    /\ pool_conn' = 0
    /\ pool_job' = [pool_job EXCEPT ![j].pc = "done"]
    /\ PoolUnchanged

NextPool ==
    \E j \in Jobs :
        \/ PoolIsConnected(j)
        \/ PoolConnect(j)
        \/ PoolExecute(j)
        \/ PoolDiscCheck(j)
        \/ PoolDisconnect(j)

SpecPool == InitPool /\ [][NextPool]_vars

\* ========================================================================
\* build_topology: the nodes and the endpoints of the links
\* (topology_builder.py:497-583, 694-704, 749-765, 785-843).  A router is
\* named by its number; a router id that maps to no collected device stays
\* the raw id, written as the negative number.
\* ========================================================================

RouterNames == 1..NumRouters
RawRouterId(r) == 0 - r

\* os.listdir filtered by valid_devices (lines 497-510): an empty or missing
\* allowlist filters nothing
DeviceFiles(collected, valid_devices) ==
    IF valid_devices = {} THEN collected ELSE collected \cap valid_devices

\* router_id_to_device.get(neighbor_id, neighbor_id) (line 694)
NeighborName(neighbor_id, device_files) ==
    IF neighbor_id \in device_files THEN neighbor_id ELSE RawRouterId(neighbor_id)

\* the links of one device's FULL neighbor rows (lines 694-765)
RECURSIVE LinksOfRows(_, _, _, _)
LinksOfRows(device_name, rows, device_files, valid_devices) ==
    IF rows = <<>> THEN <<>>
    ELSE LET neighbor_name == NeighborName(Head(rows), device_files)
             rest == LinksOfRows(device_name, Tail(rows), device_files, valid_devices)
         IN  IF valid_devices # {} /\ neighbor_name \notin valid_devices THEN rest
             ELSE IF neighbor_name = device_name THEN rest
             ELSE <<[source |-> device_name, target |-> neighbor_name]>> \o rest

\* for device_name, data in device_files.items()
RECURSIVE LinksOfDevices(_, _, _, _)
LinksOfDevices(todo, tables, device_files, valid_devices) ==
    IF todo = {} THEN <<>>
    ELSE LET d == CHOOSE x \in todo : \A y \in todo : x <= y
         IN  LinksOfRows(d, tables[d], device_files, valid_devices)
                \o LinksOfDevices(todo \ {d}, tables, device_files, valid_devices)

\* router_a, router_b = sorted([link["source"], link["target"]]) of the
\* physical record each link is counted in (lines 787, 808)
PhysicalEndpoints(ls) ==
    {[router_a |-> IF ls[i].source <= ls[i].target THEN ls[i].source ELSE ls[i].target,
      router_b |-> IF ls[i].source <= ls[i].target THEN ls[i].target ELSE ls[i].source]
        : i \in 1..Len(ls)}

BuildReferences(in) ==
    LET device_files == DeviceFiles(in.collected, in.valid_devices)
        ls == LinksOfDevices(device_files, in.tables, device_files, in.valid_devices)
    IN  [nodes |-> device_files, links |-> ls, physical_links |-> PhysicalEndpoints(ls)]

InitRef ==
    /\ ExecutorAtRest("ref")
    /\ AuxRest("ref")
    /\ ref_in \in [collected : SUBSET RouterNames,
                   valid_devices : SUBSET RouterNames,
                   tables : [RouterNames ->
                                UNION {[1..n -> RouterNames] : n \in 0..MaxNeighborRows}]]
    /\ ref_pc = "start"
    /\ ref_topology = <<>>

RefBuild ==
    /\ ref_pc = "start"
    /\ ref_topology' = BuildReferences(ref_in)
    /\ ref_pc' = "built"
    /\ UNCHANGED <<ref_in, wsvars, artvars, ratevars, topovars, normvars, filevars,
                   splitvars, bcvars, poolvars>>
    /\ ExecutorUnchanged

NextRef == RefBuild

SpecRef == InitRef /\ [][NextRef]_vars

\* _shorten_interface_name: a leading full name becomes its abbreviation and
\* the slashes are removed
ShortenInterfaceName(interface) ==
    LET result == IF StartsWith(interface, <<"Gi", "gabitEthernet">>)
                  THEN <<"Gi">> \o SubSeq(interface, Len(<<"Gi", "gabitEthernet">>) + 1,
                                          Len(interface))
                  ELSE interface
    IN  SelectSeq(result, LAMBDA t : t # Slash)

\* the id of a physical link: f"{router_a}-{router_b}{intf_suffix}", the
\* suffix present when interface_a is set
PhysicalLinkId(plink) ==
    <<plink.router_a, Hyphen, plink.router_b>>
        \o (IF plink.interface_a # NoInterface
            THEN <<Hyphen>> \o ShortenInterfaceName(plink.interface_a)
            ELSE <<>>)

\* ========================================================================
\* Claims
\* ========================================================================
TerminalStatuses == {"completed", "failed"}
FloorPercent(c, t) == (100 * c) \div t
ReportedDevices == {d \in DOMAIN job.device_progress : job.results[d] # "none"}
ExecutorEnded == main.pc = "done"

\* C1: for every job, 0 <= completed_devices <= total_devices and
\* progress_percent = floor(completed_devices / total_devices * 100).
C1_ProgressIsFloor ==
    /\ 0 <= job.completed_devices
    /\ job.completed_devices <= job.total_devices
    /\ job.progress_percent = FloorPercent(job.completed_devices, job.total_devices)

\* C2: whenever the job's status is completed, completed_devices = total_devices.
C2_CompletedMeansAllCounted ==
    job.status = "completed" => job.completed_devices = job.total_devices

C2_Witness ==
    /\ job.status = "completed"
    /\ job.completed_devices = NumDevices
    /\ ReportedDevices = Devices

\* C3: after the job reaches status completed, no device status, command
\* status, counter or current_device of the job changes any more.
C3_NoMutationAfterCompleted ==
    [][job.status = "completed" =>
          /\ job'.device_progress = job.device_progress
          /\ job'.completed_devices = job.completed_devices
          /\ job'.progress_percent = job.progress_percent
          /\ job'.current_device = job.current_device]_vars

\* C4: completed and failed are terminal: once the status is completed or
\* failed, no stop_job, fail_job or update_job_progress call changes it.
C4_TerminalStatusIsFinal ==
    [][job.status \in TerminalStatuses => job'.status = job.status]_vars

\* C5: once stop_requested is true, no device enters connecting and no
\* command is marked running afterwards.
C5_NothingStartsAfterStop ==
    [][job.stop_requested =>
          \A d \in Devices :
             /\ job'.device_progress[d].status = "connecting"
                   => job.device_progress[d].status = "connecting"
             /\ \A i \in DOMAIN job'.device_progress[d].commands :
                   job'.device_progress[d].commands[i] = "running"
                      => job.device_progress[d].commands[i] = "running"]_vars

\* C6: if stop_job takes effect while batch k is being processed or during
\* the sleep after it, no device of a later batch ever leaves pending and
\* no worker of a later batch is ever started.
C6_LaterBatchesNeverStart ==
    job.stop_requested =>
        \A d \in Devices :
            BatchOf(d) > stop_batch =>
                /\ job.device_progress[d].status = "pending"
                /\ worker[d].pc = "idle"

C6_Witness ==
    /\ ExecutorEnded
    /\ job.stop_requested
    /\ stop_batch = 1
    /\ NumBatches > 1
    /\ job.device_progress[1].completed_commands \in 1..(NumCommands - 1)
    /\ job.device_progress[NumDevices].status = "pending"

\* C7: after stop_job on a running job, the job reaches a terminal status
\* and the subscribers get a terminal event after job_stopping; stated on
\* the state in which the run of the executor has ended.
C7_StoppedJobEndsTerminal ==
    (ExecutorEnded /\ job.stop_requested) =>
        /\ job.status \in TerminalStatuses
        /\ broadcasts["job_stopping"] > 0
        /\ broadcasts["job_completed"] + broadcasts["job_failed"] > 0

\* C8: after a cancellation metadata.json is rewritten with the final
\* result: it ends with status completed or failed, never running.
C8_CancelledMetadataIsFinal ==
    (ExecutorEnded /\ job.stop_requested) => metadata \in TerminalStatuses

\* C9: without a stop request every device is reported to
\* update_job_progress exactly once whatever failures occur, and the job
\* eventually reaches status completed with completed_devices = total_devices.
C9_ReportedOnce ==
    ~job.stop_requested =>
        /\ job.results[SYSTEM] = "none"
        /\ job.completed_devices = Cardinality(ReportedDevices)
        /\ \A d \in Devices : worker[d].pc = "done" => d \in ReportedDevices
        /\ ExecutorEnded =>
              /\ ReportedDevices = Devices
              /\ job.status = "completed"
              /\ job.completed_devices = job.total_devices

C9_EveryDeviceReportedOnceAndJobCompletes ==
    /\ []C9_ReportedOnce
    /\ <>(job.stop_requested \/ (ExecutorEnded /\ job.status = "completed"))

C9_Witness ==
    /\ ExecutorEnded
    /\ ~job.stop_requested
    /\ job.status = "completed"
    /\ job.device_progress[1].status = "connection_failed"
    /\ job.results[NumDevices] \in {"success", "partial_success"}

\* C10: when the processing of a batch has ended, no device of that batch
\* is in the connection pool.
BatchEnded(k) ==
    \/ k < main.batch_idx
    \/ /\ k = main.batch_idx
       /\ \/ main.pc \in {"sleep", "final_meta", "unlink", "symlink"}
          \/ main.pc = "done" /\ job.results[SYSTEM] = "none"

C10_NoDeviceLeftConnected ==
    \A d \in Devices : BatchEnded(BatchOf(d)) => ~IsConnected(active_connections, d)

C10_Witness ==
    /\ BatchEnded(1)
    /\ main.pc = "batch_check"
    /\ job.device_progress[1].status = "disconnecting"
    /\ ~IsConnected(active_connections, 1)

\* C11: connect never bypasses the bastion: a connect that read the bastion
\* as enabled never stores a direct session, and when it obtained no tunnel
\* (the tunnel could not be established, was closed or replaced under it,
\* or the config was saved meanwhile) it ends with an error and nothing in
\* the pool for its device.
C11_NoBypass ==
    /\ \A d \in Devices : connections[d].kind = "direct" => ~connections[d].required
    /\ \A t \in ConnThreads :
          (conn[t].pc = "done" /\ conn[t].required /\ conn[t].ref = 0) =>
              /\ conn[t].result = "error"
              /\ ConnDevice(t) \notin active_connections

C11_Witness ==
    /\ ~bastion_up
    /\ \E t \in ConnThreads :
          /\ conn[t].pc = "done"
          /\ conn[t].required
          /\ conn[t].ref = 0
          /\ conn[t].result = "error"
          /\ tunnels[1].made
          /\ ConnDevice(t) \notin active_connections

\* C12: with the bastion enabled but unreachable and no stop requested,
\* every device without a session in the pool when the job starts ends
\* with status connection_failed and a recorded error after its own
\* attempt to connect, no command is run on it and it is never reported
\* successful; the job reaches status completed.
BastionUnreachable == jumphost_config.enabled /\ ~bastion_up
NoCommandRun(d) ==
    /\ job.device_progress[d].completed_commands = 0
    /\ \A i \in DOMAIN job.device_progress[d].commands :
          job.device_progress[d].commands[i] = "pending"
    /\ job.results[d] \in {"none", "failed"}
    /\ job.device_progress[d].status \in {"pending", "connecting", "failed", "connection_failed"}
EndsConnectionFailed(d) ==
    /\ job.device_progress[d].status = "connection_failed"
    /\ job.device_progress[d].errors # <<>>
    /\ worker[d].err = "connect"
    /\ job.results[d] = "failed"

C12_UnpooledDevicesFail ==
    (BastionUnreachable /\ ~job.stop_requested) =>
        \A d \in Devices \ pool_at_start :
            /\ NoCommandRun(d)
            /\ worker[d].pc = "done" => EndsConnectionFailed(d)
            /\ ExecutorEnded => worker[d].pc = "done"

C12_BastionUnreachable ==
    /\ []C12_UnpooledDevicesFail
    /\ <>(~BastionUnreachable \/ job.stop_requested \/
          (ExecutorEnded /\ job.status = "completed"))

C12_Witness ==
    /\ BastionUnreachable
    /\ ~job.stop_requested
    /\ pool_at_start = {}
    /\ ExecutorEnded
    /\ job.status = "completed"
    /\ \A d \in Devices : worker[d].pc = "done" /\ EndsConnectionFailed(d)

\* C12 as stated: the same for every device of the job
C12_EveryDeviceFails ==
    (BastionUnreachable /\ ~job.stop_requested /\ ExecutorEnded) =>
        \A d \in Devices :
            /\ job.device_progress[d].status = "connection_failed"
            /\ job.device_progress[d].errors # <<>>
            /\ job.device_progress[d].completed_commands = 0
            /\ job.results[d] = "failed"

\* C13: every tunnel used by a connect that starts after a save of the
\* bastion config has returned is built from settings at least as new as
\* the ones that save persisted, also when the save runs while other
\* connects are in progress.
C13_TunnelBuiltFromSavedSettings ==
    \A t \in ConnThreads :
        conn[t].ref # 0 => tunnels[conn[t].ref].version >= conn[t].after

\* C14: when the bastion is enabled, every device session is opened with
\* the bastion's username and password; the device record's own fields
\* never influence the credentials used.
C14_BastionCredentials ==
    \A d \in Devices :
        (connections[d].kind # "none" /\ connections[d].required) =>
            /\ connections[d].username = "jumphost"
            /\ connections[d].password = "jumphost"

\* C15: for every DeviceProgress, after any sequence of
\* init_device_commands and update_device_command_status calls,
\* completed_commands <= total_commands.
C15_CompletedWithinTotal ==
    \A d \in DOMAIN job.device_progress :
        job.device_progress[d].completed_commands <= job.device_progress[d].total_commands

\* C16: whenever a device is reported with its successful terminal status,
\* completed_commands = total_commands, also when a stop request cuts its
\* command loop short.
SuccessStatuses == {"completed", "success"}

C16_SuccessMeansAllCommandsRun ==
    \A d \in Devices :
        job.device_progress[d].status \in SuccessStatuses =>
            job.device_progress[d].completed_commands = job.device_progress[d].total_commands

\* C17: a device's status only takes the values of the lifecycle
\* pending -> connecting -> connected -> executing ->
\* (completed | failed | connection_failed) -> disconnected
\* and never moves backwards along it.
LifecycleRank(st) ==
    CASE st = "pending"    -> 0
      [] st = "connecting" -> 1
      [] st = "connected"  -> 2
      [] st = "executing"  -> 3
      [] st \in {"completed", "failed", "connection_failed"} -> 4
      [] st = "disconnected" -> 5
      [] OTHER -> -1

C17_StatusFollowsLifecycle ==
    [][\A d \in Devices :
          /\ LifecycleRank(job'.device_progress[d].status) >= 0
          /\ LifecycleRank(job'.device_progress[d].status) >=
                 LifecycleRank(job.device_progress[d].status)]_vars

\* C18: after every public Job Manager mutator returns, each country's
\* completed_devices, running_devices, failed_devices and pending_devices
\* equal the numbers of its devices currently in the corresponding statuses.
C18_CountryCountsCurrent ==
    \A c \in DOMAIN job.country_stats :
        LET now == UpdateCountryStats(job).country_stats[c]
        IN  /\ job.country_stats[c].completed_devices = now.completed_devices
            /\ job.country_stats[c].running_devices   = now.running_devices
            /\ job.country_stats[c].failed_devices    = now.failed_devices
            /\ job.country_stats[c].pending_devices   = now.pending_devices

\* C19: once a country's completed and failed devices together equal its
\* total devices its end_time is set, and once set it stays set.
C19_EndTimeLatches ==
    /\ [](\A c \in DOMAIN job.country_stats :
            job.country_stats[c].completed_devices + job.country_stats[c].failed_devices
                = job.country_stats[c].total_devices
            => job.country_stats[c].end_time)
    /\ [][\A c \in DOMAIN job.country_stats :
            job.country_stats[c].end_time => job'.country_stats[c].end_time]_vars

\* C20: every public Job Manager mutator that changes the job's state
\* enqueues exactly one broadcast snapshot for that change.
C20_OneBroadcastPerChange ==
    [][job' # job =>
          \E k \in EventKinds : broadcasts' = [broadcasts EXCEPT ![k] = @ + 1]]_vars

\* C21: for a single job, every subscriber receives the snapshots in the
\* order in which their mutations were applied under the Job Manager lock,
\* for every interleaving of the mutating threads with the broadcast
\* coroutines on the event loop.
C21_SnapshotsInMutationOrder ==
    \A s \in Subscribers :
        \A i, j \in 1..Len(ws_received[s]) :
            i < j => ws_received[s][i] < ws_received[s][j]

C21_Witness ==
    /\ Len(ws_received[1]) = MaxSnapshots
    /\ Len(ws_drainers[1]) >= 2
    /\ ws_received[NumSubscribers] = <<1>>

\* C22: repointing the current pointer is atomic against readers: once the
\* pointer resolves to an execution directory, a reader at any later moment
\* obtains the previous or the new directory, never the legacy fallback.
C22_PointerNeverMissing ==
    [][GetCurrentDataDirs(current_link) # "legacy" =>
          GetCurrentDataDirs(current_link') \in {"previous", "this"}]_vars

\* C23: execution artifacts are write-once: once an artifact file has been
\* written in an execution directory, no later command execution of that
\* execution (health-gate commands included) overwrites it.
C23_ArtifactsWriteOnce ==
    [][\A n \in ArtifactNames : art_files[n] # 0 => art_files'[n] = art_files[n]]_vars

\* C24: between two consecutive batches the executor waits
\* batch_delay = (batch_size / devices_per_hour) * 3600 seconds when
\* devices_per_hour > 0 (0 otherwise), in 1-second chunks (the least number
\* of chunks that covers batch_delay) with a stop check before each chunk,
\* and it never waits after the last batch.
WaitCompleted == rate_main.pc = "batch" /\ rate_main.batch_idx > 0

C24_WaitIsBatchDelay ==
    /\ WaitCompleted /\ rate_params.devices_per_hour = 0 => rate_main.total_slept = 0
    /\ WaitCompleted /\ rate_params.devices_per_hour > 0 =>
          /\ rate_main.total_slept * rate_params.devices_per_hour
                 >= rate_params.batch_size * SecondsPerHour
          /\ (rate_main.total_slept - SleepChunk) * rate_params.devices_per_hour
                 < rate_params.batch_size * SecondsPerHour
    /\ rate_main.pc = "sleep" => rate_main.batch_idx < RateNumBatches - 1

C24_RateLimiting ==
    /\ []C24_WaitIsBatchDelay
    /\ [][rate_stop /\ rate_main.pc = "sleep" =>
             rate_main'.total_slept = rate_main.total_slept]_vars

\* C25: every physical link build_topology produces is flagged asymmetric
\* exactly when both of its costs are present and differ; a link paired from
\* two directional links is asymmetric iff their costs differ, and an orphan
\* link with one cost missing is never asymmetric.
C25_AsymmetricIffCostsDiffer ==
    \A i \in 1..Len(consolidated_links) :
        LET plink == consolidated_links[i]
            both == plink.cost_a_to_b # None /\ plink.cost_b_to_a # None
        IN  /\ plink.is_asymmetric <=> (both /\ plink.cost_a_to_b # plink.cost_b_to_a)
            /\ ~both => ~plink.is_asymmetric

\* one result holds a paired link with different costs, flagged, and an
\* orphan link, not flagged
C25_Witness ==
    /\ topo_pc = "done"
    /\ \E i, j \in 1..Len(consolidated_links) :
        /\ consolidated_links[i].cost_a_to_b # None
        /\ consolidated_links[i].cost_b_to_a # None
        /\ consolidated_links[i].cost_a_to_b # consolidated_links[i].cost_b_to_a
        /\ consolidated_links[i].is_asymmetric
        /\ consolidated_links[j].cost_a_to_b = None
        /\ ~consolidated_links[j].is_asymmetric

\* C26: cost resolution respects priority for every emitted directional link
\* and every configured value: when the source device's configured costs hold
\* the normalized source interface, the link has cost_source "configured" and
\* that configured cost; otherwise the operational interface cost is used,
\* otherwise a matching LSA cost, otherwise the default cost 1.
C26_ConfiguredCostWins ==
    \A i \in 1..Len(links) :
        LET link == links[i]
            data == topo_in[link.source]
            normalized_interface == NormalizeInterfaceName(link.source_interface)
        IN  normalized_interface \in DOMAIN data.configured_costs
                => /\ link.cost_source = "configured"
                   /\ link.cost = data.configured_costs[normalized_interface]

\* the interfaces of a device's FULL adjacencies, in table order
RECURSIVE FullInterfaces(_)
FullInterfaces(rows) ==
    IF rows = <<>> THEN <<>>
    ELSE IF Head(rows).state = "FULL"
         THEN <<Head(rows).interface>> \o FullInterfaces(Tail(rows))
         ELSE FullInterfaces(Tail(rows))

\* a sequence without a repeated element
Distinct(seq) == \A i, j \in 1..Len(seq) : seq[i] = seq[j] => i = j

\* A and B each report k >= 1 FULL adjacencies, on k distinct interfaces
ParallelAdjacencies(k) ==
    /\ k >= 1
    /\ \A d \in Routers :
        /\ Len(FullInterfaces(topo_in[d].ospf_neighbor)) = k
        /\ Distinct(FullInterfaces(topo_in[d].ospf_neighbor))

LinksFrom(device) == {i \in 1..Len(links) : links[i].source = device}

C28_TriplesAppearOnce ==
    Distinct([i \in 1..Len(links) |->
                <<links[i].source, links[i].target, links[i].source_interface>>])

\* C29: interface normalization is idempotent, normalize(normalize(x)) =
\* normalize(x) for every interface string x, for the topology builder's
\* expanding normalizer and for the interface transformer's cleaning and
\* abbreviating normalizer.
C29_NormalizationIdempotent ==
    norm_pc = "twice"
        => /\ norm_twice.builder = norm_once.builder
           /\ norm_twice.transformer = norm_once.transformer

\* C30: file naming round trip: for every device name, command and start
\* timestamp the filename <device>_<slug>_<ts> built by execute_command is
\* parsed back, by the topology builder and by the interface transformer, to
\* the original device name and timestamp.
C30_FilenameRoundTrip ==
    file_pc = "parsed"
        => /\ ~file_parsed.builder.skipped
           /\ file_parsed.builder.device_name = file_in.device_name
           /\ file_parsed.builder.timestamp = file_in.timestamp
           /\ file_parsed.transformer = file_in.device_name

\* the physical_links dictionary after Pass 2 has handled the first n links
AfterPassTwo(n) == PassTwo(SubSeq(links, 1, n), physical_links)

\* the records a reverse link can still be attached to
Unpaired(phys) == {i \in 1..Len(phys) : phys[i].interface_b = NoInterface}

\* what handling one link may do to the dictionary under the pairing policy
PairingStep(before, after, link) ==
    LET unpaired == Unpaired(before)
        exact == {i \in unpaired : before[i].interface_a = link.source_interface}
    IN  IF link.source # RouterB THEN after = before
        ELSE IF unpaired # {}
        THEN \E i \in unpaired :
                /\ exact # {} => i \in exact
                /\ after = [before EXCEPT ![i].interface_b = link.source_interface,
                                          ![i].cost_b_to_a = link.cost]
        ELSE /\ \A i \in 1..Len(before) : after[i] = before[i]
             /\ Len(after) <= Len(before) + 1
             /\ \E j \in 1..Len(after) :
                    /\ after[j].cost_a_to_b = None
                    /\ after[j].interface_a = NoInterface
                    /\ after[j].interface_b = link.source_interface
                    /\ after[j].cost_b_to_a = link.cost

\* C31: bidirectional pairing policy: each reverse link (source = router_b)
\* is attached to a record of the pair whose interface_b is still empty, one
\* whose interface_a equals the reverse link's interface when such an unpaired
\* record exists; a record receives at most one reverse link, and an orphan
\* record with cost_a_to_b = None is made only when no unpaired record remains.
C31_PairingPolicy ==
    topo_pc = "pass2"
        => \A n \in 1..Len(links) :
            /\ PairingStep(AfterPassTwo(n - 1), AfterPassTwo(n), links[n])
            /\ \A i \in 1..Len(AfterPassTwo(n - 1)) :
                AfterPassTwo(n - 1)[i].interface_b # NoInterface
                    => AfterPassTwo(n)[i] = AfterPassTwo(n - 1)[i]

\* Pass 2 is about to run over a reverse link whose interface names an
\* unpaired record that is not the last unpaired one, and over a reverse link
\* that finds every record paired
C31_Witness ==
    /\ topo_pc = "pass2"
    /\ \E n \in 1..Len(links) :
        /\ links[n].source = RouterB
        /\ \E i, j \in Unpaired(AfterPassTwo(n - 1)) :
            /\ i < j
            /\ AfterPassTwo(n - 1)[i].interface_a = links[n].source_interface
    /\ \E n \in 1..Len(links) :
        /\ links[n].source = RouterB
        /\ Unpaired(AfterPassTwo(n - 1)) = {}

\* the concatenation of a sequence of batches
RECURSIVE Flatten(_)
Flatten(bs) == IF bs = <<>> THEN <<>> ELSE Head(bs) \o Flatten(Tail(bs))

\* C32: the executor splits the device list into consecutive batches of size
\* batch_size that together contain every device exactly once, and
\* batch_size = 0 yields a single batch containing all devices.
C32_BatchesCoverDevices ==
    split_pc = "split"
        => /\ ~batches.raised
           /\ Flatten(batches.batches) = DeviceList(split_in.devices)
           /\ IF split_in.batch_size = 0
              THEN batches.batches = <<DeviceList(split_in.devices)>>
              ELSE \A k \in 1..Len(batches.batches) :
                    /\ Len(batches.batches[k]) >= 1
                    /\ Len(batches.batches[k]) <= split_in.batch_size
                    /\ k < Len(batches.batches)
                        => Len(batches.batches[k]) = split_in.batch_size

\* C33: each snapshot delivered to a subscriber shows the job state as it was
\* when the mutation that emitted it was applied: its device_progress and
\* country_stats are untouched by the mutations worker threads apply between
\* the enqueue under the lock and the serialization on the event loop.
C33_SnapshotShowsItsMutation ==
    \A s \in Subscribers :
        \A i \in 1..Len(ws_received[s]) :
            ws_serialized[ws_received[s][i]] = ws_received[s][i]

\* C34: a broadcast in progress delivers the update to every connected
\* subscriber whose filter is unset or equals the job id, even if another
\* subscriber connects or disconnects while the broadcast is suspended in a
\* send; a subscriber filtered on another job never receives it.
C34_BroadcastReachesSubscribers ==
    /\ bc_task.pc \in {"done", "failed"}
        => \A s \in bc_task.start \cap bc_connected :
            FilterMatches(bc_filter[s]) => s \in bc_received
    /\ \A s \in bc_received : bc_filter[s] # "other"

\* C35: update_device_status never raises: in every job state, also when
\* current_device is unset as it is after the job completed, the call with
\* status disconnected that follows the end-of-batch disconnect stores the
\* device status, leaves current_device unset and broadcasts a
\* device_status_update.
C35_UpdateDeviceStatusNeverRaises ==
    [][(main.pc = "disc_end" /\ main' # main)
          => /\ job'.device_progress[DiscDevice].status = "disconnected"
             /\ job.current_device.is_none => job'.current_device.is_none
             /\ broadcasts'["device_status_update"] # broadcasts["device_status_update"]]_vars

\* C36: whenever the job's status is completed, every device of the job has
\* been processed and has an entry in results: completion is reached only by
\* counting the job's own devices, also when a stop request is observed
\* between batches.
C36_CompletedMeansAllDevicesReported ==
    job.status = "completed" => \A d \in Devices : job.results[d] # "none"

\* C37: when two jobs run concurrently over the same device through the
\* shared connection pool, the end-of-batch auto-disconnect of one job never
\* closes a device session the other job is still using to run its commands.
C37_NoDisconnectUnderOtherJob ==
    [][(pool_conn # 0 /\ pool_conn' = 0)
          => \A j \in Jobs : pool_job[j].pc # "execute"]_vars

\* C38: no bastion channel is leaked: once the connect calls for a device
\* have returned or raised, also those that fail after the channel was
\* opened, a device with a tracked bastion channel has an active session
\* (the keys of device_channels are keys of active_connections).
C38_NoChannelLeak ==
    \A d \in device_channels :
        (\A t \in ConnThreads : ConnDevice(t) = d => conn[t].pc \in {"idle", "done"})
            => d \in active_connections

\* C39: referential integrity of the topology: in every topology
\* build_topology returns, the source and the target of every directional
\* link and router_a and router_b of every physical link are ids of nodes of
\* that topology, with or without a valid_devices allowlist.
C39_LinksReferToNodes ==
    ref_pc = "built"
        => /\ \A i \in 1..Len(ref_topology.links) :
                /\ ref_topology.links[i].source \in ref_topology.nodes
                /\ ref_topology.links[i].target \in ref_topology.nodes
           /\ \A p \in ref_topology.physical_links :
                /\ p.router_a \in ref_topology.nodes
                /\ p.router_b \in ref_topology.nodes

\* C40: within one topology, distinct physical link records have distinct ids,
\* so that an insert-or-replace by id keeps every physical link, several
\* orphan records of one router pair included
C40_PhysicalLinkIdsDistinct ==
    topo_pc = "done"
        => \A i, j \in 1..Len(consolidated_links) :
              PhysicalLinkId(consolidated_links[i]) = PhysicalLinkId(consolidated_links[j])
                  => i = j

====
